---- MODULE Spec2Model ----
(***************************************************************************)
(* StyleAgent: the style profile engine of src/style_analyzer.py           *)
(* (StyleAnalyzer.analyze and StyleAnalyzer.merge_profiles) and the way    *)
(* its callers hold and combine profiles.                                  *)
(*                                                                         *)
(* Text.  A text is the sequence of its whitespace-delimited chunks.  A    *)
(* chunk records the whitespace that precedes it (sep, a sequence of the   *)
(* characters " " and "\n"), and is either a word chunk (w is the          *)
(* lower-case spelling, cap says whether the text capitalises it, punct is *)
(* the punctuation attached to it) or a marker chunk (mark is its text:    *)
(* "-", "#", "1.", "---", ...).  clip is 0 for a whole chunk; k > 0 means  *)
(* only its first k characters are present and k < 0 only its last -k      *)
(* (Python's s[:100] and s[-100:] cut inside a chunk).  Hangul words are   *)
(* written in romanised form and carry their Hangul length in WordLen.     *)
(*                                                                         *)
(* Numbers.  Python ints are integers; Python floats are IEEE 754 binary64  *)
(* values computed with round-to-nearest-even, operation by operation.     *)
(*                                                                         *)
(* Mappings.  A Python dict is a function on a set of strings; {} is the   *)
(* function with the empty domain.  A Counter, whose insertion order       *)
(* decides ties, is a sequence of <<key, count>> pairs without repeated    *)
(* keys.                                                                   *)
(*                                                                         *)
(* Objects.  The profiles are held by content.  Which dicts and lists are  *)
(* one and the same Python object is recorded beside them, section by      *)
(* section, in same_object: a merge function that returns one of its       *)
(* arguments hands the caller's own dict on to the merged profile.         *)
(***************************************************************************)
EXTENDS Integers, Sequences, FiniteSets, TLC

VARIABLES
    style_profile,      \* StyleAnalyzer.style_profile: the last result
    raw_texts,          \* StyleAnalyzer.raw_texts
    cleaned_texts,      \* StyleAnalyzer.cleaned_texts
    existing_profile,   \* the caller's existing_profile (first argument of merge_profiles)
    new_profile,        \* the caller's new_profile (second argument of merge_profiles)
    same_object,        \* for each section of style_profile, the caller's profiles
                        \* ("existing", "new") that hold the very same dict or list
    freq_lists,         \* the ranked lists handed to merge_freq_lists one after the
                        \* other, and what it returned for each grouping
    samples,            \* the sentence list handed to _get_representative_sentences, and its result
    store,              \* the files of one profile name: the profile file and the samples file
    session,            \* history: the last learn / learn-append session and the documents learned
    server,             \* run_stdio_server: the lines left on stdin, the lines written to stdout, and whether the loop has ended
    origin,             \* history: how each of the three profiles was produced
    last_op,            \* history: the operation that produced the current state
    calls               \* history: number of analyze / merge_profiles calls so far

vars == <<style_profile, raw_texts, cleaned_texts, existing_profile, new_profile,
          same_object, freq_lists, origin, last_op, calls, samples, store, session, server>>

(***************************************************************************)
(* Bounds of the model.                                                    *)
(***************************************************************************)
MaxCalls == 5

\* the largest number of candidate sentences handed to _get_representative_sentences
MaxPool == 47

\* the largest number of copies of one document in a corpus
MaxCopies == 4

\* the largest number of learn and learn-append sessions in a row
MaxSessions == 3

\* the largest number of lines on the server's stdin
MaxLines == 3

(***************************************************************************)
(* Sequences, dicts and Counters.                                          *)
(***************************************************************************)
Min2(a, b) == IF a <= b THEN a ELSE b

Max2(a, b) == IF a >= b THEN a ELSE b

Abs(a) == IF a < 0 THEN -a ELSE a

\* Python s[:n]
Take(s, n) == SubSeq(s, 1, Min2(n, Len(s)))

\* a loop over s carrying an accumulator: the left half of the range is folded
\* first and the right half continues from its value
FoldSeq(Op(_, _), base, s) ==
    LET RECURSIVE F(_, _, _, _)
        F(items, acc, lo, hi) ==
            IF lo > hi THEN acc
            ELSE IF lo = hi THEN Op(acc, items[lo])
            ELSE CHOOSE r \in {F(items, left, ((lo + hi) \div 2) + 1, hi)
                               : left \in {F(items, acc, lo, (lo + hi) \div 2)}}: TRUE
    IN  CHOOSE r \in {F(items, first, 1, Len(items)): items \in {s}, first \in {base}}: TRUE

\* range(1, n + 1)
Indices(n) == [i \in 1..n |-> i]

MapSeq(F(_), s) == [i \in 1..Len(s) |-> F(s[i])]

SumSeq(s) == FoldSeq(LAMBDA a, b: a + b, 0, s)

Concat(ss) == FoldSeq(LAMBDA a, b: a \o b, <<>>, ss)

\* sum(1 for x in s if Test(x))
CountIf(Test(_), s) == Len(SelectSeq(s, Test))

\* Python {}
EmptyDict == [k \in {} |-> 0]

\* Python d.get(k, default)
Get(d, k, default) == IF k \in DOMAIN d THEN d[k] ELSE default

\* Python "not d" of a dict or a list
IsEmpty(d) == DOMAIN d = {}

\* freq[k] = freq.get(k, 0) + c on an insertion-ordered dict
AddCount(freq, k, c) ==
    IF \E i \in 1..Len(freq): freq[i][1] = k
    THEN [i \in 1..Len(freq) |->
            IF freq[i][1] = k THEN <<k, freq[i][2] + c>> ELSE freq[i]]
    ELSE Append(freq, <<k, c>>)

\* collections.Counter(items): keys in first-seen order
Counter(items) == FoldSeq(LAMBDA acc, k: AddCount(acc, k, 1), <<>>, items)

\* a variant of the sort below that puts a pair before the pairs of equal count
\* already placed
SortedTiesReversed(freq) ==
    LET Insert(acc, x) ==
            LET p == Cardinality({i \in 1..Len(acc): acc[i][2] > x[2]})
            IN  SubSeq(acc, 1, p) \o <<x>> \o SubSeq(acc, p + 1, Len(acc))
    IN  FoldSeq(Insert, <<>>, freq)

\* sorted(freq.items(), key=lambda x: x[1], reverse=True): a stable sort, so
\* pairs of equal count keep their insertion order
SortedByCountDesc(freq) ==
    LET Insert(acc, x) ==
            LET p == Cardinality({i \in 1..Len(acc): acc[i][2] >= x[2]})
            IN  SubSeq(acc, 1, p) \o <<x>> \o SubSeq(acc, p + 1, Len(acc))
    IN  FoldSeq(Insert, <<>>, freq)

\* Counter.most_common(n): heapq.nlargest(n, ...) == sorted(..., reverse=True)[:n]
MostCommon(freq, n) == Take(SortedByCountDesc(freq), n)

(***************************************************************************)
(* Python floats: IEEE 754 binary64, round to nearest, ties to even.       *)
(* A whole number of any size is the sequence of its base-2^14 digits,     *)
(* lowest first, without leading zero digits; zero is <<>>.  A float is    *)
(* <<m, e>> standing for m * 2^e, where m has exactly 53 bits, or          *)
(* <<<<>>, 0>> for 0.0.  All floats of the analyzer are non-negative and   *)
(* far from the overflow and underflow thresholds.                         *)
(***************************************************************************)
LimbBits == 14

LimbBase == 2 ^ LimbBits

\* 2^k for a small k
Pow2(k) == 2 ^ k

\* drop the leading zero digits
BNorm(x) ==
    CHOOSE r \in {LET nz == {i \in 1..Len(v): v[i] # 0}
                  IN  IF nz = {} THEN <<>>
                      ELSE SubSeq(v, 1, CHOOSE i \in nz: \A j \in nz: j <= i)
                  : v \in {x}}: TRUE

\* digits from column values: carries are passed upwards
BCarry(cols) ==
    LET Step(st, v) ==
            CHOOSE r \in {<<Append(st[1], t % LimbBase), t \div LimbBase>>
                          : t \in {v + st[2]}}: TRUE
    IN  CHOOSE r \in {BNorm(done[1] \o <<done[2] % LimbBase,
                                         (done[2] \div LimbBase) % LimbBase,
                                         done[2] \div (LimbBase * LimbBase)>>)
                      : done \in {FoldSeq(Step, <<<<>>, 0>>, cols)}}: TRUE

BDigit(x, i) == IF i >= 1 /\ i <= Len(x) THEN x[i] ELSE 0

BFromInt(n) == BCarry(<<n>>)

BAdd(a, b) ==
    CHOOSE r \in {BCarry([i \in 1..Max2(Len(x), Len(y)) |-> BDigit(x, i) + BDigit(y, i)])
                  : x \in {a}, y \in {b}}: TRUE

\* a - b for a >= b
BSub(a, b) ==
    CHOOSE r \in {LET Step(st, i) ==
                          CHOOSE n \in {IF t < 0 THEN <<Append(st[1], t + LimbBase), 1>>
                                        ELSE <<Append(st[1], t), 0>>
                                        : t \in {x[i] - BDigit(y, i) - st[2]}}: TRUE
                  IN  BNorm(FoldSeq(Step, <<<<>>, 0>>, Indices(Len(x)))[1])
                  : x \in {a}, y \in {b}}: TRUE

\* a < b
BLess(a, b) ==
    \E x \in {a}, y \in {b}:
        \/ Len(x) < Len(y)
        \/ /\ Len(x) = Len(y)
           /\ \E i \in 1..Len(x):
                /\ x[i] < y[i]
                /\ \A j \in (i + 1)..Len(x): x[j] = y[j]

BMul(a, b) ==
    CHOOSE r \in {IF x = <<>> \/ y = <<>> THEN <<>>
                  ELSE BCarry([k \in 1..(Len(x) + Len(y) - 1) |->
                                  SumSeq([i \in 1..Len(x) |-> x[i] * BDigit(y, k - i + 1)])])
                  : x \in {a}, y \in {b}}: TRUE

\* <<a \div k, a % k>> for 0 < k <= 2^14
BDivSmall(a, k) ==
    CHOOSE r \in {LET Step(st, i) ==
                          CHOOSE n \in {<<<<t \div k>> \o st[1], t % k>>
                                        : t \in {st[2] * LimbBase + x[Len(x) + 1 - i]}}: TRUE
                  IN  CHOOSE n \in {<<BNorm(done[1]), done[2]>>
                                    : done \in {FoldSeq(Step, <<<<>>, 0>>, Indices(Len(x)))}}: TRUE
                  : x \in {a}}: TRUE

\* a * 2^s
BShl(a, s) ==
    CHOOSE r \in {IF x = <<>> THEN <<>>
                  ELSE [i \in 1..(s \div LimbBits) |-> 0] \o BMul(x, <<Pow2(s % LimbBits)>>)
                  : x \in {a}}: TRUE

\* a \div 2^s
BShr(a, s) ==
    CHOOSE r \in {IF s \div LimbBits >= Len(x) THEN <<>>
                  ELSE BDivSmall(SubSeq(x, (s \div LimbBits) + 1, Len(x)),
                                 Pow2(s % LimbBits))[1]
                  : x \in {a}}: TRUE

\* a % 2^s # 0
BLowBits(a, s) == \E x \in {a}: BShl(BShr(x, s), s) # x

\* number of bits of a
BBitLen(a) ==
    CHOOSE r \in {IF x = <<>> THEN 0
                  ELSE (Len(x) - 1) * LimbBits
                       + (CHOOSE n \in 1..LimbBits:
                            Pow2(n - 1) <= x[Len(x)] /\ x[Len(x)] < Pow2(n))
                  : x \in {a}}: TRUE

BOdd(a) == \E x \in {a}: x # <<>> /\ x[1] % 2 = 1

FZero == <<<<>>, 0>>

\* the float nearest to M * 2^E (plus a little, when sticky), ties to even
FRound(M, E, sticky) ==
    CHOOSE r \in
        {IF x = <<>> THEN FZero
         ELSE CHOOSE n \in
                {IF L <= 53 THEN <<BShl(x, 53 - L), E - (53 - L)>>
                 ELSE CHOOSE v \in
                        {IF BBitLen(up) > 53 THEN <<BShr(up, 1), E + (L - 53) + 1>>
                         ELSE <<up, E + (L - 53)>>
                         : up \in {IF /\ BOdd(BShr(x, L - 54))
                                      /\ \/ sticky
                                         \/ BLowBits(x, L - 54)
                                         \/ BOdd(BShr(x, L - 53))
                                   THEN BAdd(BShr(x, L - 53), <<1>>)
                                   ELSE BShr(x, L - 53)}}: TRUE
                 : L \in {BBitLen(x)}}: TRUE
         : x \in {M}}: TRUE

\* float(n) for an int n >= 0
FFromInt(n) == FRound(BFromInt(n), 0, FALSE)

\* a * b
FMul(a, b) ==
    CHOOSE r \in {FRound(BMul(x[1], y[1]), x[2] + y[2], FALSE): x \in {a}, y \in {b}}: TRUE

\* a + b
FAdd(a, b) ==
    CHOOSE r \in
        {IF x[1] = <<>> THEN y
         ELSE IF y[1] = <<>> THEN x
         ELSE LET hi == IF x[2] >= y[2] THEN x ELSE y
                  lo == IF x[2] >= y[2] THEN y ELSE x
                  d == hi[2] - lo[2]
              IN  IF d > 60 THEN FRound(BShl(hi[1], 2), hi[2] - 2, TRUE)
                  ELSE FRound(BAdd(BShl(hi[1], d), lo[1]), lo[2], FALSE)
         : x \in {a}, y \in {b}}: TRUE

\* a < b
FLess(a, b) ==
    \E x \in {a}, y \in {b}:
        IF y[1] = <<>> THEN FALSE
        ELSE IF x[1] = <<>> THEN TRUE
        ELSE x[2] < y[2] \/ (x[2] = y[2] /\ BLess(x[1], y[1]))

\* abs(a - b)
FAbsDiff(a, b) ==
    CHOOSE r \in
        {IF x[1] = <<>> THEN y
         ELSE IF y[1] = <<>> THEN x
         ELSE LET hi == IF FLess(x, y) THEN y ELSE x
                  lo == IF FLess(x, y) THEN x ELSE y
                  d == hi[2] - lo[2]
              IN  IF d > 60 THEN FRound(BSub(BShl(hi[1], 2), <<1>>), hi[2] - 2, TRUE)
                  ELSE FRound(BSub(BShl(hi[1], d), lo[1]), lo[2], FALSE)
         : x \in {a}, y \in {b}}: TRUE

\* a / n for an int 0 < n <= 2^14
FDivInt(a, n) ==
    CHOOSE r \in {FRound(qr[1], x[2] - 2 * LimbBits, qr[2] # 0)
                  : <<x, qr>> \in {<<y, BDivSmall(BShl(y[1], 2 * LimbBits), n)>> : y \in {a}}}: TRUE

\* p / q for ints p >= 0 and 0 < q <= 2^14
IntDiv(p, q) == FDivInt(FFromInt(p), q)

\* math.sqrt(a)
FSqrt(a) ==
    CHOOSE r \in
        {LET k == IF x[2] % 2 = 0 THEN 56 ELSE 57
         IN  CHOOSE v \in
               {LET Step(root, i) ==
                        CHOOSE n \in {IF BLess(N, BMul(c, c)) THEN root ELSE c
                                      : c \in {BAdd(root, BShl(<<1>>, 55 - i))}}: TRUE
                IN  CHOOSE n \in {FRound(root, (x[2] - k) \div 2, BMul(root, root) # N)
                                  : root \in {FoldSeq(Step, <<>>, Indices(55))}}: TRUE
                : N \in {BShl(x[1], k)}}: TRUE
         : x \in {a}}: TRUE

(***************************************************************************)
(* The lexicon: the words the modelled texts are written with, and what    *)
(* the analyzer's regular expressions and substring tests find in them.    *)
(***************************************************************************)
NL == "\n"

SP == " "

\* Hangul words (romanised) with their length in Hangul syllables:
\* annyeonghaseyo, annyeong, gamsahamnida, ttohan, gyeolguk, gyeolgugeun (gyeolguk
\* with the particle eun attached), hajiman, butakdeurimnida, haessseumnida,
\* saranghae, jeongmal, the particles eun and eseo, and plain content words.
HangulLexicon ==
    [annyeonghaseyo |-> 5, annyeong |-> 2, gamsahamnida |-> 5, ttohan |-> 2,
     gyeolguk |-> 2, gyeolgugeun |-> 3, hajiman |-> 3, butakdeurimnida |-> 6,
     haessseumnida |-> 4, saranghae |-> 3, jeongmal |-> 2, eun |-> 1, eseo |-> 2,
     hoesa |-> 2, bogoseo |-> 3, oneul |-> 2, naeil |-> 2, hoeui |-> 2]

\* re.match(r'^[가-힣]+$', w)
IsKorean(w) == w \in DOMAIN HangulLexicon

\* re.match(r'^[a-zA-Z]+$', w)
IsEnglish(w) == ~IsKorean(w)

\* len(w)
WordLen(w) == IF IsKorean(w) THEN HangulLexicon[w] ELSE Len(w)

\* <<w, p>>: the pattern p occurs inside the lexicon word w (w # p).  The
\* patterns hae, ya, eo, ji stand for the word-final forms of the tone regex.
Infixes ==
    {<<"annyeonghaseyo", "annyeong">>, <<"annyeonghaseyo", "seyo">>,
     <<"gyeolgugeun", "gyeolguk">>, <<"butakdeurimnida", "deurimnida">>,
     <<"haessseumnida", "seumnida">>, <<"saranghae", "hae">>,
     <<"greatly", "great">>, <<"dearest", "dear">>}

\* "p in w" for a lexicon word w
Contains(w, p) == w = p \/ <<w, p>> \in Infixes

\* w.startswith(p) for a lexicon word w
StartsWith(w, p) == w = p \/ <<w, p>> \in {<<"your", "you">>, <<"dearest", "dear">>,
                                            <<"greatly", "great">>}

\* w.endswith(p) for a lexicon word w
EndsWith(w, p) == w = p

Chunk(sep, mark, w, cap, punct) ==
    [sep |-> sep, mark |-> mark, w |-> w, cap |-> cap, punct |-> punct, clip |-> 0]

IsWord(c) == c.mark = "" /\ c.clip = 0

\* the chunk as a token of s.split(): its text without the whitespace before it
Token(c) == [c EXCEPT !.sep = <<>>]

\* len of the chunk's text (the marker FENCE stands for three backquotes)
ChunkLen(c) ==
    IF c.clip # 0 THEN Abs(c.clip)
    ELSE IF c.mark = "FENCE" THEN 3
    ELSE IF c.mark # "" THEN Len(c.mark)
    ELSE WordLen(c.w) + Len(c.punct)

\* len(text)
TextLen(t) == SumSeq(MapSeq(LAMBDA c: Len(c.sep) + ChunkLen(c), t))

\* text.strip(): a text never ends in whitespace here, so only the front is cut
Strip(t) == IF t = <<>> THEN t ELSE [t EXCEPT ![1].sep = <<>>]

\* sep.join(texts)
Join(texts, sep) ==
    LET Step(acc, t) ==
            LET lead == acc.carry \o (IF acc.first THEN <<>> ELSE sep)
            IN  IF t = <<>>
                THEN [acc EXCEPT !.carry = lead, !.first = FALSE]
                ELSE [out |-> acc.out \o [t EXCEPT ![1].sep = lead \o t[1].sep],
                      carry |-> <<>>, first |-> FALSE]
    IN  FoldSeq(Step, [out |-> <<>>, carry |-> <<>>, first |-> TRUE], texts).out

\* the word chunks of a text: re.findall(r'\b[a-zA-Z가-힣]+\b', text)
WordChunks(t) == SelectSeq(t, IsWord)

(***************************************************************************)
(* StyleAnalyzer._clean_text                                               *)
(***************************************************************************)
\* NOISE_PATTERNS: a citation marker anywhere, "---" alone on its line
NOISE_PATTERNS == {"citeturn0search1", "turn0search1", "---"}

IsNoiseAt(t, i) ==
    /\ t[i].mark \in NOISE_PATTERNS
    /\ t[i].mark = "---" =>
          /\ (i = 1 \/ \E j \in 1..Len(t[i].sep): t[i].sep[j] = NL)
          /\ (i = Len(t) \/ \E j \in 1..Len(t[i + 1].sep): t[i + 1].sep[j] = NL)

\* re.sub(r'\n{3,}', '\n\n', s) followed by re.sub(r' {2,}', ' ', s), on one
\* stretch of whitespace
CollapseWhitespace(sep) ==
    LET s1 == SelectSeq(Indices(Len(sep)),
                        LAMBDA i: ~(sep[i] = NL /\ i >= 3 /\ sep[i - 1] = NL
                                    /\ sep[i - 2] = NL))
        n == [k \in 1..Len(s1) |-> sep[s1[k]]]
        s2 == SelectSeq(Indices(Len(n)),
                        LAMBDA i: ~(n[i] = SP /\ i >= 2 /\ n[i - 1] = SP))
    IN  [k \in 1..Len(s2) |-> n[s2[k]]]

_clean_text(text) ==
    LET Step(prev, i) ==
            IF IsNoiseAt(text, i)
            THEN [prev EXCEPT !.carry = @ \o text[i].sep]
            ELSE [out |-> Append(prev.out, [text[i] EXCEPT !.sep = prev.carry \o @]),
                  carry |-> <<>>]
        r == FoldSeq(Step, [out |-> <<>>, carry |-> <<>>], Indices(Len(text)))
        cleaned == MapSeq(LAMBDA c: [c EXCEPT !.sep = CollapseWhitespace(@)], r.out)
    IN  Strip(cleaned)

(***************************************************************************)
(* StyleAnalyzer._split_sentences and the paragraph split of analyze       *)
(***************************************************************************)
\* the chunk ends in one of . ! ?  (the look-behind of the split regex)
EndsSentence(c) ==
    IF c.mark # "" THEN c.mark = "1." /\ c.clip = 0
    ELSE c.punct \in {".", "!", "?"} /\ c.clip >= 0

\* re.match(r'^[-#*\d\s]+$', s)
NoiseOnly(s) ==
    \A i \in 1..Len(s): s[i].mark \in {"-", "#", "---", "------------", "**"}

\* cut a text after every chunk for which Cut(i) holds; pieces are stripped
SplitAfter(text, Cut(_)) ==
    LET Step(prev, i) ==
            LET cur == Append(prev.cur, text[i])
            IN  IF Cut(i) /\ i < Len(text)
                THEN [done |-> Append(prev.done, Strip(cur)), cur |-> <<>>]
                ELSE [done |-> prev.done, cur |-> cur]
        e == FoldSeq(Step, [done |-> <<>>, cur |-> <<>>], Indices(Len(text)))
    IN  IF e.cur = <<>> THEN e.done ELSE Append(e.done, Strip(e.cur))

_split_sentences(text) ==
    SelectSeq(SplitAfter(text, LAMBDA i: EndsSentence(text[i])),
              LAMBDA s: TextLen(s) > 10 /\ ~NoiseOnly(s))

\* the whitespace holds a blank line: "\n\n" occurs in it
HasBlankLine(sep) == \E j \in 1..Len(sep) - 1: sep[j] = NL /\ sep[j + 1] = NL

\* [p.strip() for p in text.split("\n\n") if p.strip()]
SplitParagraphs(text) ==
    SplitAfter(text, LAMBDA i: i < Len(text) /\ HasBlankLine(text[i + 1].sep))

(***************************************************************************)
(* StyleAnalyzer._analyze_sentences, _analyze_paragraphs                   *)
(***************************************************************************)
_analyze_sentences(sentences) ==
    IF sentences = <<>> THEN EmptyDict
    ELSE
    LET n == Len(sentences)
        lengths == MapSeq(TextLen, sentences)
        word_counts == MapSeq(Len, sentences)          \* len(s.split())
        avg_len == IntDiv(SumSeq(lengths), n)
        \* (x - avg_len) ** 2
        sq(x) == LET d == FAbsDiff(FFromInt(x), avg_len) IN FMul(d, d)
        variance == FDivInt(FoldSeq(FAdd, FZero, MapSeq(sq, lengths)), n)
        std_dev == FSqrt(variance)
        short == CountIf(LAMBDA l: l < 50, lengths)
        medium == CountIf(LAMBDA l: 50 <= l /\ l < 150, lengths)
        long == CountIf(LAMBDA l: l >= 150, lengths)
    IN  [avg_length_chars |-> avg_len,
         std_dev_length |-> std_dev,
         avg_word_count |-> IntDiv(SumSeq(word_counts), n),
         min_length |-> CHOOSE l \in {lengths[i] : i \in 1..n}:
                            \A i \in 1..n: l <= lengths[i],
         max_length |-> CHOOSE l \in {lengths[i] : i \in 1..n}:
                            \A i \in 1..n: l >= lengths[i],
         total_sentences |-> n,
         length_distribution |->
            [short_pct |-> FMul(IntDiv(short, n), FFromInt(100)),
             medium_pct |-> FMul(IntDiv(medium, n), FFromInt(100)),
             long_pct |-> FMul(IntDiv(long, n), FFromInt(100))]]

_analyze_paragraphs(paragraphs) ==
    IF paragraphs = <<>> THEN EmptyDict
    ELSE
    LET n == Len(paragraphs)
        lengths == MapSeq(TextLen, paragraphs)
        sentence_counts == MapSeq(LAMBDA p: Len(_split_sentences(p)), paragraphs)
    IN  [avg_length_chars |-> IntDiv(SumSeq(lengths), n),
         avg_sentences_per_para |-> IntDiv(SumSeq(sentence_counts), n),
         total_paragraphs |-> n,
         single_sentence_para_pct |->
            FMul(IntDiv(CountIf(LAMBDA c: c = 1, sentence_counts), n), FFromInt(100))]

(***************************************************************************)
(* StyleAnalyzer._analyze_vocabulary                                       *)
(***************************************************************************)
ENGLISH_STOPWORDS ==
    {"the", "a", "an", "and", "or", "but", "in", "on", "at", "to", "for", "of", "with",
     "by", "from", "as", "is", "was", "are", "were", "been", "be", "have", "has", "had",
     "do", "does", "did", "will", "would", "could", "should", "may", "might", "must",
     "that", "this", "these", "those", "it", "its", "you", "your", "we", "our", "they",
     "their", "he", "she", "his", "her", "i", "my", "me", "not", "no", "yes", "can",
     "if", "when", "where", "what", "which", "who", "how", "why", "all", "each", "more",
     "some", "any", "there", "here", "about", "into", "through", "during", "before",
     "after", "above", "below", "between", "under", "again", "further", "then", "once"}

\* the particles of the lexicon (romanised)
KOREAN_PARTICLES == {"eun", "neun", "eul", "reul", "eseo", "euro", "buteo", "kkaji",
                     "boda", "cheoreom", "gachi", "hago", "ina", "geona"}

\* re.match(r'^(turn|search|cite|entity)\d*', w), for the words of the lexicon
NoiseLike(w) == w \in {"turn", "search", "cite", "entity", "searching", "turned"}

_analyze_vocabulary(texts) ==
    LET combined == Join(texts, <<SP>>)
        words == MapSeq(LAMBDA c: c.w, WordChunks(combined))
        meaningful_words ==
            SelectSeq(words, LAMBDA w: /\ WordLen(w) > 1
                                       /\ w \notin ENGLISH_STOPWORDS
                                       /\ w \notin KOREAN_PARTICLES
                                       /\ ~NoiseLike(w))
        word_freq == Counter(meaningful_words)
        total == Len(meaningful_words)
        unique == Len(word_freq)
        top_words == MostCommon(word_freq, 50)
        korean_words == SelectSeq(top_words, LAMBDA e: IsKorean(e[1]))
        english_words == SelectSeq(top_words, LAMBDA e: IsEnglish(e[1]))
    IN  [total_meaningful_words |-> total,
         unique_words |-> unique,
         vocabulary_richness |-> IF total > 0 THEN IntDiv(unique, total) ELSE FZero,
         top_korean_words |-> Take(korean_words, 20),
         top_english_words |-> Take(english_words, 20)]

(***************************************************************************)
(* StyleAnalyzer._extract_opening_patterns, _detect_greetings,             *)
(* _extract_closing_patterns, _detect_signoffs                             *)
(***************************************************************************)
\* s[:n]
ClipHead(s, n) ==
    LET Step(prev, c) ==
            LET before == prev.used + Len(c.sep)
                room == n - before
            IN  [out |-> IF room <= 0 THEN prev.out
                         ELSE IF ChunkLen(c) <= room THEN Append(prev.out, c)
                         ELSE Append(prev.out, [c EXCEPT !.clip = room]),
                 used |-> before + ChunkLen(c)]
    IN  FoldSeq(Step, [out |-> <<>>, used |-> 0], s).out

\* s[-n:]
ClipTail(s, n) ==
    LET Step(prev, i) ==
            LET c == s[Len(s) + 1 - i]
                room == n - prev.used
                seproom == room - ChunkLen(c)
                sep == IF seproom >= Len(c.sep) THEN c.sep
                       ELSE SubSeq(c.sep, Len(c.sep) - Max2(seproom, 0) + 1, Len(c.sep))
            IN  [out |-> IF room <= 0 THEN prev.out
                         ELSE IF ChunkLen(c) <= room
                              THEN <<[c EXCEPT !.sep = sep]>> \o prev.out
                         ELSE <<[c EXCEPT !.sep = <<>>, !.clip = -room]>> \o prev.out,
                 used |-> prev.used + ChunkLen(c) + Len(c.sep)]
    IN  FoldSeq(Step, [out |-> <<>>, used |-> 0], Indices(Len(s))).out

\* the chunk shows its whole word (a chunk cut inside its word shows a fragment,
\* in which no pattern of the catalogues is found)
ShowsWord(c) == c.mark = "" /\ (c.clip = 0 \/ c.clip >= WordLen(c.w))

\* "p in t" / "p in t.lower()" for a one-word pattern p
HasSub(t, p) == \E i \in 1..Len(t): ShowsWord(t[i]) /\ Contains(t[i].w, p)

\* "w1 w2 in t.lower()" for a two-word pattern: a word ending in w1, one space,
\* a word starting with w2
HasPhrase(t, w1, w2) ==
    \E i \in 1..Len(t) - 1:
        /\ t[i].mark = "" /\ t[i].clip = 0 /\ EndsWith(t[i].w, w1) /\ t[i].punct = ""
        /\ t[i + 1].sep = <<SP>>
        /\ ShowsWord(t[i + 1]) /\ StartsWith(t[i + 1].w, w2)

\* {k: v for k, v in patterns.items() if v > 0}
PositiveOnly(patterns) ==
    [k \in {k \in DOMAIN patterns: patterns[k] > 0} |-> patterns[k]]

_detect_greetings(texts) ==
    PositiveOnly(
      ("annyeonghaseyo" :> CountIf(LAMBDA t: HasSub(t, "annyeonghaseyo"), texts))
      @@ ("annyeong" :> CountIf(LAMBDA t: ~HasSub(t, "annyeonghaseyo")
                                          /\ HasSub(t, "annyeong"), texts))
      @@ ("Hello" :> CountIf(LAMBDA t: HasSub(t, "hello"), texts))
      @@ ("Hi" :> CountIf(LAMBDA t: t # <<>> /\ ShowsWord(t[1]) /\ t[1].w = "hi", texts))
      @@ ("Dear" :> CountIf(LAMBDA t: HasSub(t, "dear"), texts))
      @@ ("Good morning/afternoon" :>
            CountIf(LAMBDA t: HasPhrase(t, "good", "morning")
                              \/ HasPhrase(t, "good", "afternoon"), texts))
      @@ ("Thank you" :> CountIf(LAMBDA t: HasPhrase(t, "thank", "you"), texts))
      @@ ("gamsahamnida" :> CountIf(LAMBDA t: HasSub(t, "gamsahamnida"), texts)))

\* Counter(words).most_common(15) of the openings' or closings' word lists
PhraseLists(texts, Pick1(_), Pick2(_), Pick3(_)) ==
    LET tokens(t) == MapSeq(Token, t)
        ones == Concat(MapSeq(LAMBDA t: IF t = <<>> THEN <<>> ELSE <<Pick1(tokens(t))>>,
                              texts))
        more == Concat(MapSeq(LAMBDA t:
                    (IF Len(t) >= 2 THEN <<Pick2(tokens(t))>> ELSE <<>>)
                    \o (IF Len(t) >= 3 THEN <<Pick3(tokens(t))>> ELSE <<>>), texts))
    IN  [words |-> MostCommon(Counter(ones), 15),
         phrases |-> MostCommon(Counter(more), 15)]

_extract_opening_patterns(paragraphs) ==
    IF paragraphs = <<>> THEN EmptyDict
    ELSE
    LET openings ==
            Concat(MapSeq(LAMBDA p:
                LET first_sentence == _split_sentences(p)
                IN  IF first_sentence # <<>>
                    THEN <<ClipHead(first_sentence[1], 100)>> ELSE <<>>, paragraphs))
        freq == PhraseLists(openings, LAMBDA w: w[1], LAMBDA w: SubSeq(w, 1, 2),
                            LAMBDA w: SubSeq(w, 1, 3))
    IN  [common_first_words |-> freq.words,
         common_first_phrases |-> freq.phrases,
         greeting_patterns |-> _detect_greetings(openings),
         sample_openings |-> Take(openings, 10)]

_detect_signoffs(texts) ==
    PositiveOnly(
      ("Best regards" :> CountIf(LAMBDA t: HasPhrase(t, "best", "regards"), texts))
      @@ ("Best" :> CountIf(LAMBDA t: ~HasPhrase(t, "best", "regards") /\ HasSub(t, "best")
                                      /\ TextLen(t) < 50, texts))
      @@ ("Thanks" :> CountIf(LAMBDA t: HasSub(t, "thanks"), texts))
      @@ ("Thank you" :> CountIf(LAMBDA t: HasPhrase(t, "thank", "you"), texts))
      @@ ("Sincerely" :> CountIf(LAMBDA t: HasSub(t, "sincerely"), texts))
      @@ ("gamsahamnida" :> CountIf(LAMBDA t: HasSub(t, "gamsahamnida"), texts))
      @@ ("butakdeurimnida" :> CountIf(LAMBDA t: HasSub(t, "butakdeurimnida"), texts))
      @@ ("malsseumhae juseyo" :>
            CountIf(LAMBDA t: HasPhrase(t, "malsseumhae", "juseyo")
                              \/ HasSub(t, "malsseumhaejuseyo"), texts)))

_extract_closing_patterns(paragraphs) ==
    IF paragraphs = <<>> THEN EmptyDict
    ELSE
    LET closings ==
            Concat(MapSeq(LAMBDA p:
                LET sentences == _split_sentences(p)
                    last == sentences[Len(sentences)]
                IN  IF sentences # <<>>
                    THEN <<IF TextLen(last) > 100 THEN ClipTail(last, 100) ELSE last>>
                    ELSE <<>>, paragraphs))
        freq == PhraseLists(closings, LAMBDA w: w[Len(w)],
                            LAMBDA w: SubSeq(w, Len(w) - 1, Len(w)),
                            LAMBDA w: SubSeq(w, Len(w) - 2, Len(w)))
    IN  [common_last_words |-> freq.words,
         common_last_phrases |-> freq.phrases,
         signoff_patterns |-> _detect_signoffs(closings),
         sample_closings |-> Take(closings, 10)]

(***************************************************************************)
(* StyleAnalyzer._analyze_transitions                                      *)
(***************************************************************************)
Categories == <<"additive", "contrast", "causal", "sequential", "exemplifying",
                "concluding">>

\* KOREAN_TRANSITIONS (romanised), in the order the dict lists them
KOREAN_TRANSITIONS ==
    [additive |-> <<"ttohan", "geurigo", "deobureo", "aulleo", "gedaga",
                    "ppunman anira", "machangajiro">>,
     contrast |-> <<"hajiman", "geureona", "banmyeon", "bandaero", "geureochiman",
                    "daman", "ohiryeo">>,
     causal |-> <<"ttaraseo", "geureomeuro", "ttaemune", "geuraeseo", "gyeolgwajeogeuro",
                  "iro inhae">>,
     sequential |-> <<"meonjeo", "daeumeuro", "geu daeum", "majimageuro", "cheotjjae",
                      "duljjae", "setjjae">>,
     exemplifying |-> <<"yereul deureo", "yekeondae", "guchejeogeuro", "teukhi", "garyeong">>,
     concluding |-> <<"gyeolronjeogeuro", "yoyakhamyeon", "jeongnihamyeon", "gyeolguk",
                      "mamurihajamyeon">>]

ENGLISH_TRANSITIONS ==
    [additive |-> <<"also", "additionally", "furthermore", "moreover", "in addition",
                    "as well">>,
     contrast |-> <<"however", "but", "nevertheless", "on the other hand", "in contrast",
                    "yet">>,
     causal |-> <<"therefore", "thus", "consequently", "as a result", "hence", "so">>,
     sequential |-> <<"first", "second", "third", "next", "then", "finally", "lastly">>,
     exemplifying |-> <<"for example", "for instance", "specifically", "such as",
                        "including">>,
     concluding |-> <<"in conclusion", "to summarize", "in summary", "ultimately",
                      "overall">>]

\* len(re.findall(rf'\b{w}\b', combined, re.IGNORECASE)) for a one-word w; the
\* phrases of several words are spelled with words outside the lexicon
CountWholeWord(combined, w) == CountIf(LAMBDA c: IsWord(c) /\ c.w = w, combined)

\* len(re.findall(rf'{w}', combined))
CountSubstring(combined, w) == CountIf(LAMBDA c: IsWord(c) /\ Contains(c.w, w), combined)

_analyze_transitions(texts) ==
    LET combined == Join(texts, <<SP>>)
        usage(table) ==
            [cat \in DOMAIN table |->
                SumSeq(MapSeq(LAMBDA w: CountWholeWord(combined, w), table[cat]))]
        all(table) == Concat(MapSeq(LAMBDA cat: table[cat], Categories))
        kr_specific == MapSeq(LAMBDA w: <<w, CountSubstring(combined, w)>>,
                              all(KOREAN_TRANSITIONS))
        en_specific == MapSeq(LAMBDA w: <<w, CountWholeWord(combined, w)>>,
                              all(ENGLISH_TRANSITIONS))
    IN  [korean_by_category |-> usage(KOREAN_TRANSITIONS),
         english_by_category |-> usage(ENGLISH_TRANSITIONS),
         top_korean_transitions |-> MostCommon(kr_specific, 10),
         top_english_transitions |-> MostCommon(en_specific, 10)]

(***************************************************************************)
(* StyleAnalyzer._analyze_tone_detailed                                    *)
(***************************************************************************)
\* number of word chunks in which one of the substrings occurs
CountAnySubstring(combined, patterns) ==
    CountIf(LAMBDA c: IsWord(c) /\ \E p \in patterns: Contains(c.w, p), combined)

\* number of word chunks that are one of the words (regex with \b on both sides)
CountAnyWord(combined, words) == CountIf(LAMBDA c: IsWord(c) /\ c.w \in words, combined)

\* len(re.findall(r'\bw1 w2\b', combined_lower))
CountPhrase(combined, w1, w2) ==
    Cardinality({i \in 1..Len(combined) - 1:
        /\ IsWord(combined[i]) /\ combined[i].w = w1 /\ combined[i].punct = ""
        /\ combined[i + 1].sep = <<SP>>
        /\ IsWord(combined[i + 1]) /\ combined[i + 1].w = w2})

PrimaryTone(formal, casual) == IF formal > casual THEN "formal" ELSE "casual"

_analyze_tone_detailed(texts) ==
    LET combined == Join(texts, <<SP>>)
        korean_metrics ==
            [formal_high |-> CountAnySubstring(combined,
                {"seumnida", "imnida", "hasipsio", "deurimnida", "doegessseumnida"}),
             formal_polite |-> CountAnySubstring(combined,
                {"haeyo", "eyo", "jyo", "seyo", "gunyo"}),
             informal |-> CountAnySubstring(combined,
                {"hae", "ya", "eo", "ji", "geoya", "janha"})]
        english_metrics ==
            [formal |-> CountAnyWord(combined,
                {"please", "kindly", "regards", "sincerely", "respectfully"}),
             polite |-> CountPhrase(combined, "thank", "you")
                        + CountAnyWord(combined, {"appreciate"})
                        + CountPhrase(combined, "would", "you")
                        + CountPhrase(combined, "could", "you"),
             casual |-> CountAnyWord(combined,
                {"hey", "thanks", "yeah", "nope", "awesome", "cool"})]
        emotional ==
            [enthusiastic |->
                CountIf(LAMBDA c: c.mark = "" /\ c.punct = "!", combined)
                + CountAnySubstring(combined, {"jeongmal", "neomu", "aju", "great",
                                               "amazing", "excellent", "excited"}),
             cautious |-> CountAnySubstring(combined,
                {"ama", "perhaps", "maybe", "might", "possibly", "josim", "juui"}),
             direct |-> CountAnySubstring(combined,
                {"must", "should", "haeya", "piryohamnida", "jungyohamnida"})
                + CountPhrase(combined, "need", "to")]
    IN  [korean_formality |-> korean_metrics,
         english_formality |-> english_metrics,
         primary_korean_tone |-> PrimaryTone(korean_metrics.formal_high,
                                             korean_metrics.informal),
         primary_english_tone |-> PrimaryTone(english_metrics.formal,
                                              english_metrics.casual),
         emotional_indicators |-> emotional]

(***************************************************************************)
(* StyleAnalyzer._analyze_structure                                        *)
(***************************************************************************)
\* the chunk is the first text of its line (after optional whitespace)
AtLineStart(t, i) == i = 1 \/ \E j \in 1..Len(t[i].sep): t[i].sep[j] = NL

\* the chunk stands at the very start of its line
AtLineHead(t, i) == i = 1 \/ (t[i].sep # <<>> /\ t[i].sep[Len(t[i].sep)] = NL)

\* the chunk is the last text of its line
AtLineEnd(t, i) == i = Len(t) \/ (t[i + 1].sep # <<>> /\ t[i + 1].sep[1] = NL)

SameLine(t, i, k) == \A j \in (i + 1)..k: \A x \in 1..Len(t[j].sep): t[j].sep[x] # NL

\* matches of r'^[\s]*[-•*]\s' (re.MULTILINE)
BulletMatches(t) ==
    {i \in 1..Len(t) - 1: t[i].mark \in {"-", "*"} /\ AtLineStart(t, i)}

\* matches of r'^[\s]*\d+[.)]\s'
NumberMatches(t) ==
    {i \in 1..Len(t) - 1: t[i].mark \in {"1.", "1)"} /\ AtLineStart(t, i)}

\* matches of r'^#+\s'
HashMatches(t) == {i \in 1..Len(t) - 1: t[i].mark = "#" /\ AtLineHead(t, i)}

\* matches of r'^[A-Z][^.!?\n]{0,50}:$': a line that starts with a capital letter
\* and ends in a colon
ColonHeaderMatches(t) ==
    {i \in 1..Len(t):
        /\ t[i].mark = "" /\ t[i].cap /\ IsEnglish(t[i].w) /\ AtLineHead(t, i)
        /\ \E k \in i..Len(t):
              /\ SameLine(t, i, k) /\ AtLineEnd(t, k)
              /\ t[k].mark = "" /\ t[k].punct = ":"
              /\ \A j \in i..k: ~EndsSentence(t[j])
              /\ TextLen(Strip(SubSeq(t, i, k))) - 2 <= 50}

_analyze_structure(texts) ==
    LET combined == Join(texts, <<NL>>)
        n == Len(combined)
    IN  [patterns |->
            [uses_bullet_points |-> BulletMatches(combined) # {},
             uses_numbering |-> NumberMatches(combined) # {},
             uses_headers |-> HashMatches(combined) # {}
                              \/ ColonHeaderMatches(combined) # {},
             uses_bold |-> \E i, k \in 1..n:
                              /\ i < k /\ combined[i].mark = "**" /\ combined[k].mark = "**"
                              /\ \A j \in (i + 1)..(k - 1): combined[j].mark \notin {"*", "**"},
             uses_code_blocks |-> \E i \in 1..n: combined[i].mark = "FENCE",
             uses_tables |-> \E i, k \in 1..n:
                              /\ i < k /\ combined[i].mark = "|" /\ combined[k].mark = "|"
                              /\ SameLine(combined, i, k)],
         counts |->
            [bullet_count |-> Cardinality(BulletMatches(combined)),
             number_count |-> Cardinality(NumberMatches(combined)),
             header_count |-> Cardinality(HashMatches(combined)),
             question_count |->
                CountIf(LAMBDA c: c.mark = "" /\ c.punct = "?", combined)]]

(***************************************************************************)
(* StyleAnalyzer._extract_signature_phrases, _get_representative_sentences *)
(***************************************************************************)
\* a variant of the extraction below that keeps the phrases occurring twice
TwiceIsSignature(texts) ==
    LET words == MapSeq(LAMBDA c: <<c.w, c.cap>>, WordChunks(Join(texts, <<SP>>)))
        n == Len(words)
        bigrams ==
            SelectSeq([i \in 1..Max2(n - 1, 0) |-> <<words[i], words[i + 1]>>],
                      LAMBDA bg: bg[1][1] \notin {"the", "a", "an", "is", "are", "was",
                                                  "were"})
        trigrams == [i \in 1..Max2(n - 2, 0) |-> <<words[i], words[i + 1], words[i + 2]>>]
    IN  [signature_bigrams |->
            Take(SelectSeq(MostCommon(Counter(bigrams), 30), LAMBDA e: e[2] > 1), 15),
         signature_trigrams |->
            Take(SelectSeq(MostCommon(Counter(trigrams), 20), LAMBDA e: e[2] > 1), 10)]

_extract_signature_phrases(texts) ==
    LET combined == Join(texts, <<SP>>)
        \* the words as written: the spelling and whether it is capitalised
        words == MapSeq(LAMBDA c: <<c.w, c.cap>>, WordChunks(combined))
        n == Len(words)
        bigrams ==
            SelectSeq([i \in 1..Max2(n - 1, 0) |-> <<words[i], words[i + 1]>>],
                      LAMBDA bg: bg[1][1] \notin {"the", "a", "an", "is", "are", "was",
                                                  "were"})
        trigrams == [i \in 1..Max2(n - 2, 0) |-> <<words[i], words[i + 1], words[i + 2]>>]
        bigram_freq == MostCommon(Counter(bigrams), 30)
        trigram_freq == MostCommon(Counter(trigrams), 20)
        sig_bigrams == SelectSeq(bigram_freq, LAMBDA e: e[2] > 2)
        sig_trigrams == SelectSeq(trigram_freq, LAMBDA e: e[2] > 2)
    IN  [signature_bigrams |-> Take(sig_bigrams, 15),
         signature_trigrams |-> Take(sig_trigrams, 10)]

_get_representative_sentences(sentences, count) ==
    IF sentences = <<>> THEN <<>>
    ELSE
    LET filtered == SelectSeq(sentences, LAMBDA s: 30 < TextLen(s) /\ TextLen(s) < 300)
        step == Len(filtered) \div count
    IN  IF Len(filtered) <= count THEN filtered
        ELSE [i \in 1..count |-> filtered[(i - 1) * step + 1]]

(***************************************************************************)
(* StyleAnalyzer.analyze                                                   *)
(***************************************************************************)
CleanAll(texts) == MapSeq(_clean_text, texts)

analyze(texts) ==
    LET cleaned == CleanAll(texts)
        all_sentences == Concat(MapSeq(_split_sentences, cleaned))
        all_paragraphs == Concat(MapSeq(SplitParagraphs, cleaned))
    IN  [metadata |->
            [total_documents |-> Len(texts),
             total_characters |-> SumSeq(MapSeq(TextLen, cleaned))],
         sentence_stats |-> _analyze_sentences(all_sentences),
         paragraph_stats |-> _analyze_paragraphs(all_paragraphs),
         vocabulary |-> _analyze_vocabulary(cleaned),
         opening_patterns |-> _extract_opening_patterns(all_paragraphs),
         closing_patterns |-> _extract_closing_patterns(all_paragraphs),
         transition_analysis |-> _analyze_transitions(cleaned),
         tone_analysis |-> _analyze_tone_detailed(cleaned),
         structural_patterns |-> _analyze_structure(cleaned),
         signature_phrases |-> _extract_signature_phrases(cleaned),
         sample_sentences |-> _get_representative_sentences(all_sentences, 15)]

(***************************************************************************)
(* The texts given to analyze.                                             *)
(***************************************************************************)
Wd(w) == Chunk(<<SP>>, "", w, FALSE, "")

WdP(w, punct) == Chunk(<<SP>>, "", w, FALSE, punct)

Cap(w) == Chunk(<<SP>>, "", w, TRUE, "")

CapP(w, punct) == Chunk(<<SP>>, "", w, TRUE, punct)

Mark(m) == Chunk(<<SP>>, m, "", FALSE, "")

\* the chunk starts a new line / a new paragraph
Line(c) == [c EXCEPT !.sep = <<NL>>]

Para(c) == [c EXCEPT !.sep = <<NL, NL>>]

\* "Dear Sam, Thank you for your time. Best regards, Alex."
LetterDoc ==
    Strip(<<Cap("dear"), CapP("sam", ","), Cap("thank"), Wd("you"), Wd("for"),
            Wd("your"), WdP("time", "."),
            Cap("best"), WdP("regards", ","), CapP("alex", ".")>>)

\* "However the report is greatly delayed, yet we should meet again?
\*
\*  Thanks for the great summary! Sincerely, Alex."
ReplyDoc ==
    Strip(<<Cap("however"), Wd("the"), Wd("report"), Wd("is"), Wd("greatly"),
            WdP("delayed", ","), Wd("yet"), Wd("we"), Wd("should"), Wd("meet"),
            WdP("again", "?"),
            Para(Cap("thanks")), Wd("for"), Wd("the"), Wd("great"), WdP("summary", "!"),
            CapP("sincerely", ","), CapP("alex", ".")>>)

\* "Hello team, also please search the citeturn0search1 item list.
\*  ---
\*  Maybe it is cool, thanks for your time!
\*
\*
\*
\*  So we thank   you, dearest Sam."
NoteDoc ==
    Strip(<<Cap("hello"), WdP("team", ","), Wd("also"), Wd("please"), Wd("search"),
            Wd("the"), Mark("citeturn0search1"), Wd("item"), WdP("list", "."),
            Line(Mark("---")),
            Line(Cap("maybe")), Wd("it"), Wd("is"), WdP("cool", ","), Wd("thanks"),
            Wd("for"), Wd("your"), WdP("time", "!"),
            [Cap("so") EXCEPT !.sep = <<NL, NL, NL, NL>>], Wd("we"), Wd("thank"),
            [WdP("you", ",") EXCEPT !.sep = <<SP, SP, SP>>], Wd("dearest"),
            CapP("sam", ".")>>)

\* (romanised) "annyeonghaseyo oneul hoeui bogoseo ttohan haessseumnida.
\*  hajiman gyeolgugeun naeil hoesa eseo saranghae!
\*
\*  jeongmal gamsahamnida gyeolguk hoeui butakdeurimnida."
KoreanDoc ==
    Strip(<<Wd("annyeonghaseyo"), Wd("oneul"), Wd("hoeui"), Wd("bogoseo"), Wd("ttohan"),
            WdP("haessseumnida", "."),
            Line(Wd("hajiman")), Wd("gyeolgugeun"), Wd("naeil"), Wd("hoesa"), Wd("eseo"),
            WdP("saranghae", "!"),
            Para(Wd("jeongmal")), Wd("gamsahamnida"), Wd("gyeolguk"), Wd("hoeui"),
            WdP("butakdeurimnida", ".")>>)

\* "Summary:
\*  - item one
\*  - item two
\*  1. first point then second point
\*
\*  # report summary
\*  ** great item ** | item | one |
\*  ------------ FENCE"
ListDoc ==
    Strip(<<CapP("summary", ":"),
            Line(Mark("-")), Wd("item"), Wd("one"),
            Line(Mark("-")), Wd("item"), Wd("two"),
            Line(Mark("1.")), Wd("first"), Wd("point"), Wd("then"), Wd("second"),
            Wd("point"),
            Para(Mark("#")), Wd("report"), Wd("summary"),
            Line(Mark("**")), Wd("great"), Wd("item"), Mark("**"), Mark("|"), Wd("item"),
            Mark("|"), Wd("one"), Mark("|"),
            Line(Mark("------------")), Mark("FENCE")>>)

\* "Hi Sam."
FragDoc == Strip(<<Cap("hi"), CapP("sam", ".")>>)

\* "Agenda:
\*  Please call Sam again?"
MemoDoc ==
    Strip(<<CapP("agenda", ":"),
            Line(Cap("please")), Wd("call"), Cap("sam"), WdP("again", "?")>>)

BulkWords ==
    <<"apple", "bridge", "candle", "dragon", "engine", "forest", "garden", "harbor",
      "island", "jungle", "kettle", "ladder", "market", "needle", "orange", "pencil",
      "quartz", "rocket", "silver", "tunnel", "umbrella", "valley", "window", "yellow">>

\* nine paragraphs of one sentence each; sentence p is the eight words that
\* follow the p-th of the twelve bulk words starting at base, taken cyclically
BulkDoc(base) ==
    LET word(p, j) == BulkWords[base + ((p - 1 + j) % 12) + 1]
        sentence(p) ==
            [j \in 1..8 |->
                IF j = 1 THEN (IF p = 1 THEN Wd(word(p, 0)) ELSE Para(Wd(word(p, 0))))
                ELSE IF j = 8 THEN WdP(word(p, 7), ".")
                ELSE Wd(word(p, j - 1))]
    IN  Strip(Concat([p \in 1..9 |-> sentence(p)]))

\* the corpora a caller may hand to analyze
Corpora ==
    {<<>>, <<LetterDoc>>, <<ReplyDoc>>, <<NoteDoc, KoreanDoc>>, <<ListDoc, FragDoc>>,
     <<MemoDoc>>, <<BulkDoc(0)>>, <<BulkDoc(12)>>}

(***************************************************************************)
(* StyleAnalyzer.merge_profiles and its helpers                            *)
(***************************************************************************)
\* dict1.get(key, 0) + dict2.get(key, 0) for key in set(dict1) | set(dict2)
merge_category_dict(dict1, dict2) ==
    [key \in DOMAIN dict1 \cup DOMAIN dict2 |-> Get(dict1, key, 0) + Get(dict2, key, 0)]

\* the same sum, keeping {k: v for k, v in merged.items() if v > 0}
merge_pattern_dicts(dict1, dict2) == PositiveOnly(merge_category_dict(dict1, dict2))

\* a variant of the merge below that keeps the whole sorted list
UncutFreqLists(list1, list2, limit) ==
    SortedByCountDesc(FoldSeq(LAMBDA acc, e: AddCount(acc, e[1], e[2]), <<>>,
                              list1 \o list2))

\* a variant of the merge below that cuts one entry before the limit
ShortCutFreqLists(list1, list2, limit) ==
    Take(SortedByCountDesc(FoldSeq(LAMBDA acc, e: AddCount(acc, e[1], e[2]), <<>>,
                                   list1 \o list2)), limit - 1)

\* freq_dict filled from list1 then list2, sorted by count (stable), cut at limit
merge_freq_lists(list1, list2, limit) ==
    LET freq_dict == FoldSeq(LAMBDA acc, e: AddCount(acc, e[1], e[2]), <<>>,
                             list1 \o list2)
    IN  Take(SortedByCountDesc(freq_dict), limit)

\* a variant that ignores the weights: the plain mean of the two values
PlainMeanField(existing, new, k, w1, w2) ==
    FDivInt(FAdd(Get(existing, k, FZero), Get(new, k, FZero)), 2)

\* existing.get(k, 0) * w1 + new.get(k, 0) * w2
WeightedField(existing, new, k, w1, w2) ==
    FAdd(FMul(Get(existing, k, FZero), w1), FMul(Get(new, k, FZero), w2))

\* a variant that weights each side by the other side's count
CrossWeightedSentenceStats(existing, new) ==
    IF IsEmpty(existing) THEN new
    ELSE IF IsEmpty(new) THEN existing
    ELSE
    LET existing_count == Get(existing, "total_sentences", 0)
        new_count == Get(new, "total_sentences", 0)
        total_count == existing_count + new_count
        w1 == IntDiv(new_count, total_count)
        w2 == IntDiv(existing_count, total_count)
        dist1 == Get(existing, "length_distribution", EmptyDict)
        dist2 == Get(new, "length_distribution", EmptyDict)
    IN  IF total_count = 0 THEN existing
        ELSE [avg_length_chars |-> WeightedField(existing, new, "avg_length_chars", w1, w2),
              std_dev_length |-> WeightedField(existing, new, "std_dev_length", w1, w2),
              avg_word_count |-> WeightedField(existing, new, "avg_word_count", w1, w2),
              min_length |-> Min2(Get(existing, "min_length", 9999),
                                  Get(new, "min_length", 9999)),
              max_length |-> Max2(Get(existing, "max_length", 0), Get(new, "max_length", 0)),
              total_sentences |-> total_count,
              length_distribution |->
                 [short_pct |-> WeightedField(dist1, dist2, "short_pct", w1, w2),
                  medium_pct |-> WeightedField(dist1, dist2, "medium_pct", w1, w2),
                  long_pct |-> WeightedField(dist1, dist2, "long_pct", w1, w2)]]

\* a variant that adds the percentages of the two sides like counts
SummedDistributionStats(existing, new) ==
    IF IsEmpty(existing) THEN new
    ELSE IF IsEmpty(new) THEN existing
    ELSE
    LET existing_count == Get(existing, "total_sentences", 0)
        new_count == Get(new, "total_sentences", 0)
        total_count == existing_count + new_count
        w1 == IntDiv(existing_count, total_count)
        w2 == IntDiv(new_count, total_count)
        dist1 == Get(existing, "length_distribution", EmptyDict)
        dist2 == Get(new, "length_distribution", EmptyDict)
        Summed(k) == FAdd(Get(dist1, k, FZero), Get(dist2, k, FZero))
    IN  IF total_count = 0 THEN existing
        ELSE [avg_length_chars |-> WeightedField(existing, new, "avg_length_chars", w1, w2),
              std_dev_length |-> WeightedField(existing, new, "std_dev_length", w1, w2),
              avg_word_count |-> WeightedField(existing, new, "avg_word_count", w1, w2),
              min_length |-> Min2(Get(existing, "min_length", 9999),
                                  Get(new, "min_length", 9999)),
              max_length |-> Max2(Get(existing, "max_length", 0), Get(new, "max_length", 0)),
              total_sentences |-> total_count,
              length_distribution |->
                 [short_pct |-> Summed("short_pct"),
                  medium_pct |-> Summed("medium_pct"),
                  long_pct |-> Summed("long_pct")]]

\* a variant of the merge below without its "if total_count == 0" return: the
\* division existing_count / total_count raises
\* a variant that keeps the existing side's min_length and max_length
ExistingRangeSentenceStats(existing, new) ==
    IF IsEmpty(existing) THEN new
    ELSE IF IsEmpty(new) THEN existing
    ELSE
    LET existing_count == Get(existing, "total_sentences", 0)
        new_count == Get(new, "total_sentences", 0)
        total_count == existing_count + new_count
        w1 == IntDiv(existing_count, total_count)
        w2 == IntDiv(new_count, total_count)
        dist1 == Get(existing, "length_distribution", EmptyDict)
        dist2 == Get(new, "length_distribution", EmptyDict)
    IN  IF total_count = 0 THEN existing
        ELSE [avg_length_chars |-> WeightedField(existing, new, "avg_length_chars", w1, w2),
              std_dev_length |-> WeightedField(existing, new, "std_dev_length", w1, w2),
              avg_word_count |-> WeightedField(existing, new, "avg_word_count", w1, w2),
              min_length |-> Get(existing, "min_length", 9999),
              max_length |-> Get(existing, "max_length", 0),
              total_sentences |-> total_count,
              length_distribution |->
                 [short_pct |-> WeightedField(dist1, dist2, "short_pct", w1, w2),
                  medium_pct |-> WeightedField(dist1, dist2, "medium_pct", w1, w2),
                  long_pct |-> WeightedField(dist1, dist2, "long_pct", w1, w2)]]

UnguardedSentenceStats(existing, new) ==
    IF IsEmpty(existing) THEN new
    ELSE IF IsEmpty(new) THEN existing
    ELSE IF Get(existing, "total_sentences", 0) + Get(new, "total_sentences", 0) = 0
         THEN [error |-> "ZeroDivisionError"]
    ELSE [avg_length_chars |-> FZero, total_sentences |->
             Get(existing, "total_sentences", 0) + Get(new, "total_sentences", 0)]

_merge_sentence_stats(existing, new) ==
    IF IsEmpty(existing) THEN new
    ELSE IF IsEmpty(new) THEN existing
    ELSE
    LET existing_count == Get(existing, "total_sentences", 0)
        new_count == Get(new, "total_sentences", 0)
        total_count == existing_count + new_count
        w1 == IntDiv(existing_count, total_count)
        w2 == IntDiv(new_count, total_count)
        dist1 == Get(existing, "length_distribution", EmptyDict)
        dist2 == Get(new, "length_distribution", EmptyDict)
    IN  IF total_count = 0 THEN existing
        ELSE [avg_length_chars |-> WeightedField(existing, new, "avg_length_chars", w1, w2),
              std_dev_length |-> WeightedField(existing, new, "std_dev_length", w1, w2),
              avg_word_count |-> WeightedField(existing, new, "avg_word_count", w1, w2),
              min_length |-> Min2(Get(existing, "min_length", 9999),
                                  Get(new, "min_length", 9999)),
              max_length |-> Max2(Get(existing, "max_length", 0), Get(new, "max_length", 0)),
              total_sentences |-> total_count,
              length_distribution |->
                 [short_pct |-> WeightedField(dist1, dist2, "short_pct", w1, w2),
                  medium_pct |-> WeightedField(dist1, dist2, "medium_pct", w1, w2),
                  long_pct |-> WeightedField(dist1, dist2, "long_pct", w1, w2)]]

_merge_paragraph_stats(existing, new) ==
    IF IsEmpty(existing) THEN new
    ELSE IF IsEmpty(new) THEN existing
    ELSE
    LET existing_count == Get(existing, "total_paragraphs", 0)
        new_count == Get(new, "total_paragraphs", 0)
        total_count == existing_count + new_count
        w1 == IntDiv(existing_count, total_count)
        w2 == IntDiv(new_count, total_count)
    IN  IF total_count = 0 THEN existing
        ELSE [avg_length_chars |-> WeightedField(existing, new, "avg_length_chars", w1, w2),
              avg_sentences_per_para |->
                 WeightedField(existing, new, "avg_sentences_per_para", w1, w2),
              total_paragraphs |-> total_count,
              single_sentence_para_pct |->
                 WeightedField(existing, new, "single_sentence_para_pct", w1, w2)]

\* the nested helper of _merge_vocabulary
merge_word_lists(list1, list2) == merge_freq_lists(list1, list2, 20)

\* a variant of _merge_vocabulary with the ratio turned over
InvertedRichnessVocabulary(existing, new) ==
    IF IsEmpty(existing) THEN new
    ELSE IF IsEmpty(new) THEN existing
    ELSE
    LET total_words == Get(existing, "total_meaningful_words", 0)
                       + Get(new, "total_meaningful_words", 0)
        unique_words == Get(existing, "unique_words", 0) + Get(new, "unique_words", 0)
    IN  [total_meaningful_words |-> total_words,
         unique_words |-> unique_words,
         vocabulary_richness |->
            IF unique_words > 0 THEN IntDiv(total_words, unique_words) ELSE FZero,
         top_korean_words |-> merge_word_lists(Get(existing, "top_korean_words", <<>>),
                                               Get(new, "top_korean_words", <<>>)),
         top_english_words |-> merge_word_lists(Get(existing, "top_english_words", <<>>),
                                                Get(new, "top_english_words", <<>>))]

_merge_vocabulary(existing, new) ==
    IF IsEmpty(existing) THEN new
    ELSE IF IsEmpty(new) THEN existing
    ELSE
    LET total_words == Get(existing, "total_meaningful_words", 0)
                       + Get(new, "total_meaningful_words", 0)
        unique_words == Get(existing, "unique_words", 0) + Get(new, "unique_words", 0)
    IN  [total_meaningful_words |-> total_words,
         unique_words |-> unique_words,
         vocabulary_richness |->
            IF total_words > 0 THEN IntDiv(unique_words, total_words) ELSE FZero,
         top_korean_words |-> merge_word_lists(Get(existing, "top_korean_words", <<>>),
                                               Get(new, "top_korean_words", <<>>)),
         top_english_words |-> merge_word_lists(Get(existing, "top_english_words", <<>>),
                                                Get(new, "top_english_words", <<>>))]

\* one entry of the dict _merge_patterns returns: merged from the opening key
\* when existing has it, from the closing key otherwise
PatternField(existing, new, first_key, last_key, default, Merge(_, _)) ==
    IF first_key \in DOMAIN existing
    THEN Merge(Get(existing, first_key, default), Get(new, first_key, default))
    ELSE Merge(Get(existing, last_key, default), Get(new, last_key, default))

_merge_patterns(existing, new) ==
    IF IsEmpty(existing) THEN new
    ELSE IF IsEmpty(new) THEN existing
    ELSE [common_first_words |->
             PatternField(existing, new, "common_first_words", "common_last_words", <<>>,
                          LAMBDA l1, l2: merge_freq_lists(l1, l2, 15)),
          common_first_phrases |->
             PatternField(existing, new, "common_first_phrases", "common_last_phrases",
                          <<>>, LAMBDA l1, l2: merge_freq_lists(l1, l2, 15)),
          greeting_patterns |->
             PatternField(existing, new, "greeting_patterns", "signoff_patterns", EmptyDict,
                          merge_pattern_dicts),
          sample_openings |->
             PatternField(existing, new, "sample_openings", "sample_closings", <<>>,
                          LAMBDA e, n: Take(n, 5) \o Take(e, 5))]

_merge_transitions(existing, new) ==
    IF IsEmpty(existing) THEN new
    ELSE IF IsEmpty(new) THEN existing
    ELSE [korean_by_category |->
             merge_category_dict(Get(existing, "korean_by_category", EmptyDict),
                                 Get(new, "korean_by_category", EmptyDict)),
          english_by_category |->
             merge_category_dict(Get(existing, "english_by_category", EmptyDict),
                                 Get(new, "english_by_category", EmptyDict)),
          top_korean_transitions |->
             merge_freq_lists(Get(existing, "top_korean_transitions", <<>>),
                              Get(new, "top_korean_transitions", <<>>), 10),
          top_english_transitions |->
             merge_freq_lists(Get(existing, "top_english_transitions", <<>>),
                              Get(new, "top_english_transitions", <<>>), 10)]

\* a variant that keeps the tones the existing profile recorded
ExistingTonesKept(existing, new) ==
    IF IsEmpty(existing) THEN new
    ELSE IF IsEmpty(new) THEN existing
    ELSE [korean_formality |->
             merge_category_dict(Get(existing, "korean_formality", EmptyDict),
                                 Get(new, "korean_formality", EmptyDict)),
          english_formality |->
             merge_category_dict(Get(existing, "english_formality", EmptyDict),
                                 Get(new, "english_formality", EmptyDict)),
          primary_korean_tone |-> Get(existing, "primary_korean_tone", "casual"),
          primary_english_tone |-> Get(existing, "primary_english_tone", "casual"),
          emotional_indicators |->
             merge_category_dict(Get(existing, "emotional_indicators", EmptyDict),
                                 Get(new, "emotional_indicators", EmptyDict))]

_merge_tone(existing, new) ==
    IF IsEmpty(existing) THEN new
    ELSE IF IsEmpty(new) THEN existing
    ELSE
    LET merged_kr == merge_category_dict(Get(existing, "korean_formality", EmptyDict),
                                         Get(new, "korean_formality", EmptyDict))
        merged_en == merge_category_dict(Get(existing, "english_formality", EmptyDict),
                                         Get(new, "english_formality", EmptyDict))
        merged_emotional ==
            merge_category_dict(Get(existing, "emotional_indicators", EmptyDict),
                                Get(new, "emotional_indicators", EmptyDict))
    IN  [korean_formality |-> merged_kr,
         english_formality |-> merged_en,
         primary_korean_tone |->
            PrimaryTone(Get(merged_kr, "formal_high", 0), Get(merged_kr, "informal", 0)),
         primary_english_tone |->
            PrimaryTone(Get(merged_en, "formal", 0), Get(merged_en, "casual", 0)),
         emotional_indicators |-> merged_emotional]

PatternKeys ==
    {"uses_bullet_points", "uses_numbering", "uses_headers", "uses_bold",
     "uses_code_blocks", "uses_tables"}

CountKeys == {"bullet_count", "number_count", "header_count", "question_count"}

_merge_structure(existing, new) ==
    IF IsEmpty(existing) THEN new
    ELSE IF IsEmpty(new) THEN existing
    ELSE [patterns |->
             [key \in PatternKeys |->
                 Get(Get(existing, "patterns", EmptyDict), key, FALSE)
                 \/ Get(Get(new, "patterns", EmptyDict), key, FALSE)],
          counts |->
             [key \in CountKeys |->
                 Get(Get(existing, "counts", EmptyDict), key, 0)
                 + Get(Get(new, "counts", EmptyDict), key, 0)]]

_merge_signatures(existing, new) ==
    IF IsEmpty(existing) THEN new
    ELSE IF IsEmpty(new) THEN existing
    ELSE [signature_bigrams |->
             merge_freq_lists(Get(existing, "signature_bigrams", <<>>),
                              Get(new, "signature_bigrams", <<>>), 15),
          signature_trigrams |->
             merge_freq_lists(Get(existing, "signature_trigrams", <<>>),
                              Get(new, "signature_trigrams", <<>>), 10)]

\* profile.get(section, {})
Section(profile, name) == Get(profile, name, EmptyDict)

merge_profiles(existing, new) ==
    [metadata |->
        [total_documents |-> Get(Section(existing, "metadata"), "total_documents", 0)
                             + Get(Section(new, "metadata"), "total_documents", 0),
         total_characters |-> Get(Section(existing, "metadata"), "total_characters", 0)
                              + Get(Section(new, "metadata"), "total_characters", 0)],
     sentence_stats |-> _merge_sentence_stats(Section(existing, "sentence_stats"),
                                              Section(new, "sentence_stats")),
     paragraph_stats |-> _merge_paragraph_stats(Section(existing, "paragraph_stats"),
                                                Section(new, "paragraph_stats")),
     vocabulary |-> _merge_vocabulary(Section(existing, "vocabulary"),
                                      Section(new, "vocabulary")),
     opening_patterns |-> _merge_patterns(Section(existing, "opening_patterns"),
                                          Section(new, "opening_patterns")),
     closing_patterns |-> _merge_patterns(Section(existing, "closing_patterns"),
                                          Section(new, "closing_patterns")),
     transition_analysis |-> _merge_transitions(Section(existing, "transition_analysis"),
                                                Section(new, "transition_analysis")),
     tone_analysis |-> _merge_tone(Section(existing, "tone_analysis"),
                                   Section(new, "tone_analysis")),
     structural_patterns |-> _merge_structure(Section(existing, "structural_patterns"),
                                              Section(new, "structural_patterns")),
     signature_phrases |-> _merge_signatures(Section(existing, "signature_phrases"),
                                             Section(new, "signature_phrases")),
     sample_sentences |-> Take(Get(new, "sample_sentences", <<>>)
                               \o Get(existing, "sample_sentences", <<>>), 15)]

\* the keys of a profile
SectionNames ==
    {"metadata", "sentence_stats", "paragraph_stats", "vocabulary", "opening_patterns",
     "closing_patterns", "transition_analysis", "tone_analysis", "structural_patterns",
     "signature_phrases", "sample_sentences"}

\* the count that _merge_sentence_stats and _merge_paragraph_stats test for 0
CountKeyOf(name) ==
    IF name = "sentence_stats" THEN <<"total_sentences">>
    ELSE IF name = "paragraph_stats" THEN <<"total_paragraphs">>
    ELSE <<>>

\* the argument a section's merge function returns as it is ("return new",
\* "return existing"), or "none" when it builds a new dict
ReturnedArgument(name, existing, new) ==
    IF IsEmpty(existing) THEN "new"
    ELSE IF IsEmpty(new) THEN "existing"
    ELSE IF /\ CountKeyOf(name) # <<>>
            /\ Get(existing, CountKeyOf(name)[1], 0) + Get(new, CountKeyOf(name)[1], 0) = 0
         THEN "existing"
    ELSE "none"

\* for each section of merge_profiles(existing, new), the arguments whose own
\* object it is: metadata and sample_sentences are always built anew, and
\* profile.get(name, {}) of a profile without the section is a new {}
ObjectsKept(existing, new) ==
    [name \in SectionNames |->
        IF name \in {"metadata", "sample_sentences"} THEN {}
        ELSE LET kept == ReturnedArgument(name, Section(existing, name), Section(new, name))
             IN  {r \in {"existing", "new"}:
                    /\ r = kept
                    /\ name \in DOMAIN (IF r = "existing" THEN existing ELSE new)}]

(***************************************************************************)
(* The state machine: a StyleAnalyzer and the two profiles its caller      *)
(* holds for merge_profiles.                                               *)
(***************************************************************************)
\* history of a profile: kind is "none" for {}, "analyze" or "merge"; leaves are
\* the corpora whose analyses went into it, in merge order; fold says that the
\* profile is analyze(leaf 1) merged with analyze(leaf 2), then with
\* analyze(leaf 3), and so on, one at a time; pure says that no {} went into it
NoOrigin == [kind |-> "none", leaves |-> <<>>, fold |-> FALSE, pure |-> FALSE]

AnalyzeOrigin(texts) ==
    [kind |-> "analyze", leaves |-> <<texts>>, fold |-> TRUE, pure |-> TRUE]

MergeOrigin(oe, on) ==
    [kind |-> "merge", leaves |-> oe.leaves \o on.leaves,
     fold |-> oe.fold /\ on.kind = "analyze", pure |-> oe.pure /\ on.pure]

\* the analyses of the corpora, computed once
AnalysisOf == CHOOSE table \in {[texts \in Corpora |-> analyze(texts)]}: table = table

\* no ranked list has been handed to merge_freq_lists on its own
NoLists == [a |-> <<>>, b |-> <<>>, c |-> <<>>, left |-> <<>>, right |-> <<>>, done |-> {}]

NoSamples == [sentences |-> <<>>, result |-> <<>>, done |-> FALSE]

\* neither file exists
NoStore == [profile |-> EmptyDict, has_profile |-> FALSE, samples |-> <<>>, has_samples |-> FALSE]

\* nothing on stdin, nothing written; log is history: for each line read, the
\* lines written for it
NoServer == [stdin |-> <<>>, stdout |-> <<>>, stopped |-> FALSE, log |-> <<>>]

NoSession == [kind |-> "none", texts |-> <<>>, before |-> NoStore, learned |-> 0, count |-> 0]

\* StyleAnalyzer.__init__; the caller holds no profile yet
Init ==
    /\ style_profile = EmptyDict
    /\ raw_texts = <<>>
    /\ cleaned_texts = <<>>
    /\ existing_profile = EmptyDict
    /\ new_profile = EmptyDict
    /\ same_object = [name \in SectionNames |-> {}]
    /\ freq_lists = NoLists
    /\ origin = [style |-> NoOrigin, existing |-> NoOrigin, new |-> NoOrigin]
    /\ last_op = "init"
    /\ calls = 0
    /\ server = NoServer
    /\ session = NoSession
    /\ store = NoStore
    /\ samples = NoSamples

\* new_profile = analyzer.analyze(texts): analyze stores the profile in the
\* analyzer and returns it to the caller
Analyze(texts) ==
    /\ calls < MaxCalls
    /\ raw_texts' = texts
    /\ cleaned_texts' = CleanAll(texts)
    /\ style_profile' = AnalysisOf[texts]
    /\ new_profile' = style_profile'
    /\ same_object' = [name \in SectionNames |-> {"new"}]
    /\ origin' = [origin EXCEPT !.style = AnalyzeOrigin(texts),
                                !.new = AnalyzeOrigin(texts)]
    /\ last_op' = "analyze"
    /\ calls' = calls + 1
    /\ UNCHANGED <<existing_profile, freq_lists, samples, store, session, server>>

\* existing_profile = analyzer.load_profile(path) of the profile the analyzer
\* last saved (save_profile writes style_profile)
LoadProfile ==
    /\ origin.existing # origin.style
    /\ existing_profile' = style_profile
    /\ same_object' = [name \in SectionNames |->
                          IF name \in DOMAIN style_profile THEN {"existing"} ELSE {}]
    /\ origin' = [origin EXCEPT !.existing = origin.style]
    /\ last_op' = "load"
    /\ UNCHANGED <<style_profile, raw_texts, cleaned_texts, new_profile, freq_lists, calls, samples, store, session, server>>

\* a variant that fills the caller's existing_profile instead of a new dict
MergeProfilesInPlace ==
    /\ calls < MaxCalls
    /\ style_profile' = merge_profiles(existing_profile, new_profile)
    /\ existing_profile' = style_profile'
    /\ same_object' = [name \in SectionNames |-> {"existing"}]
    /\ origin' = [origin EXCEPT !.style = MergeOrigin(origin.existing, origin.new)]
    /\ last_op' = "merge"
    /\ calls' = calls + 1
    /\ UNCHANGED <<raw_texts, cleaned_texts, new_profile, freq_lists, samples, store, session, server>>

\* analyzer.merge_profiles(existing_profile, new_profile)
MergeProfiles ==
    /\ calls < MaxCalls
    /\ style_profile' = merge_profiles(existing_profile, new_profile)
    /\ same_object' = ObjectsKept(existing_profile, new_profile)
    /\ origin' = [origin EXCEPT !.style = MergeOrigin(origin.existing, origin.new)]
    /\ last_op' = "merge"
    /\ calls' = calls + 1
    /\ UNCHANGED <<raw_texts, cleaned_texts, existing_profile, new_profile, freq_lists, samples, store, session, server>>

Next ==
    \/ \E texts \in Corpora: Analyze(texts)
    \/ LoadProfile
    \/ MergeProfiles

Spec == Init /\ [][Next]_vars

(***************************************************************************)
(* merge_profiles on stored profiles.  load_profile returns whatever the   *)
(* profile file holds, and a file that an older analyzer wrote lacks       *)
(* fields; merge_profiles takes any two profiles its caller has.           *)
(***************************************************************************)
\* the profile without one field of one section
Without(profile, name, field) ==
    [profile EXCEPT ![name] = [k \in DOMAIN profile[name] \ {field} |-> profile[name][k]]]

\* the fields that the stored profiles may lack, one at a time
RemovedFields ==
    {<<"opening_patterns", "common_first_words">>, <<"sentence_stats", "min_length">>,
     <<"sentence_stats", "max_length">>, <<"sentence_stats", "total_sentences">>,
     <<"sentence_stats", "avg_length_chars">>, <<"vocabulary", "top_english_words">>,
     <<"paragraph_stats", "total_paragraphs">>,
     <<"vocabulary", "total_meaningful_words">>}

\* the corpora whose profiles are stored
StoredCorpora == {<<LetterDoc>>, <<ReplyDoc>>}

\* the profiles that the files hold: whole, or lacking a field
StoredProfiles ==
    {IF r = <<>> THEN profile ELSE Without(profile, r[1], r[2]) :
        profile \in {AnalysisOf[texts] : texts \in StoredCorpora},
        r \in RemovedFields \cup {<<>>}}

\* history of a profile read from a file
StoredOrigin == [kind |-> "stored", leaves |-> <<>>, fold |-> FALSE, pure |-> FALSE]

\* a new StyleAnalyzer whose caller holds two stored profiles
StoredInit ==
    /\ style_profile = EmptyDict
    /\ raw_texts = <<>>
    /\ cleaned_texts = <<>>
    /\ \E stored \in {StoredProfiles}: \E pair \in stored \X stored:
          /\ existing_profile = pair[1]
          /\ new_profile = pair[2]
    /\ same_object = [name \in SectionNames |-> {}]
    /\ freq_lists = NoLists
    /\ origin = [style |-> NoOrigin, existing |-> StoredOrigin, new |-> StoredOrigin]
    /\ last_op = "init"
    /\ calls = 0
    /\ server = NoServer
    /\ session = NoSession
    /\ store = NoStore
    /\ samples = NoSamples

StoredNext == MergeProfiles

StoredSpec == StoredInit /\ [][StoredNext]_vars

(***************************************************************************)
(* merge_freq_lists on its own: three ranked lists merged one after the    *)
(* other in the two possible groupings, with the limit of the trigrams.    *)
(***************************************************************************)
Phrases == <<"t01", "t02", "t03", "t04", "t05", "t06", "t07", "t08", "t09", "t10",
             "t11", "t12">>

\* the phrases lo..hi, each with the same count
Run(lo, hi, count) == [i \in 1..(hi - lo + 1) |-> <<Phrases[lo + i - 1], count>>]

\* ranked lists as analyze and merge_freq_lists return them: no phrase twice,
\* counts descending, at most 10 entries
RankedLists ==
    {<<>>, Run(1, 5, 3), Run(6, 9, 2) \o Run(10, 10, 1), Run(6, 10, 2) \o Run(11, 11, 1),
     Run(10, 10, 5), Run(11, 11, 5), Run(1, 3, 4) \o Run(6, 7, 1), Run(3, 12, 2)}

\* merge_freq_lists(list1, list2, 10), the call for signature_trigrams
merge_trigram_lists(list1, list2) == merge_freq_lists(list1, list2, 10)

\* a new StyleAnalyzer, and three ranked lists to merge
ListInit ==
    /\ style_profile = EmptyDict
    /\ raw_texts = <<>>
    /\ cleaned_texts = <<>>
    /\ existing_profile = EmptyDict
    /\ new_profile = EmptyDict
    /\ same_object = [name \in SectionNames |-> {}]
    /\ freq_lists \in {[NoLists EXCEPT !.a = x, !.b = y, !.c = z] :
                          x \in RankedLists, y \in RankedLists, z \in RankedLists}
    /\ origin = [style |-> NoOrigin, existing |-> NoOrigin, new |-> NoOrigin]
    /\ last_op = "init"
    /\ calls = 0
    /\ server = NoServer
    /\ session = NoSession
    /\ store = NoStore
    /\ samples = NoSamples

\* merge_freq_lists(merge_freq_lists(a, b, 10), c, 10)
MergeLeftFirst ==
    /\ "left" \notin freq_lists.done
    /\ freq_lists' = [freq_lists EXCEPT
                         !.left = merge_trigram_lists(
                                      merge_trigram_lists(freq_lists.a, freq_lists.b),
                                      freq_lists.c),
                         !.done = @ \cup {"left"}]
    /\ UNCHANGED <<style_profile, raw_texts, cleaned_texts, existing_profile, new_profile,
                   same_object, origin, last_op, calls, samples, store, session, server>>

\* merge_freq_lists(a, merge_freq_lists(b, c, 10), 10)
MergeRightFirst ==
    /\ "right" \notin freq_lists.done
    /\ freq_lists' = [freq_lists EXCEPT
                         !.right = merge_trigram_lists(
                                       freq_lists.a,
                                       merge_trigram_lists(freq_lists.b, freq_lists.c)),
                         !.done = @ \cup {"right"}]
    /\ UNCHANGED <<style_profile, raw_texts, cleaned_texts, existing_profile, new_profile,
                   same_object, origin, last_op, calls, samples, store, session, server>>

ListNext ==
    \/ MergeLeftFirst
    \/ MergeRightFirst

ListSpec == ListInit /\ [][ListNext]_vars

(***************************************************************************)
(* _get_representative_sentences on its own: all_sentences of a corpus of  *)
(* up to MaxPool sentences of fitting length, alone or with sentences of   *)
(* 30 characters or less, or of 300 or more, among them.                   *)
(***************************************************************************)
\* all_sentences of a corpus of n sentences of fitting length (five words, 32
\* characters or more, all different), in the "short" mix with a sentence of 13
\* to 15 characters before every fourth of them, in the "long" mix with one of
\* 300 characters or more after every fifth
Sentences(n, mix) ==
    LET first(k) == Chunk(<<>>, "", BulkWords[(k % 24) + 1], TRUE, "")
        fit(k) == <<first(k), Wd(BulkWords[(k \div 24) + 1]),
                    Wd("market"), Wd("needle"), WdP("orange", ".")>>
        short(k) == <<first(k), WdP("window", ".")>>
        long(k) == <<first(k)>> \o [i \in 1..48 |-> Wd(BulkWords[(i % 24) + 1])]
                       \o <<WdP("yellow", ".")>>
    IN  Concat([k \in 1..n |->
            IF mix = "short" /\ k % 4 = 1 THEN <<short(k), fit(k)>>
            ELSE IF mix = "long" /\ k % 5 = 0 THEN <<fit(k), long(k)>>
            ELSE <<fit(k)>>])

SampleInit ==
    /\ style_profile = EmptyDict
    /\ raw_texts = <<>>
    /\ cleaned_texts = <<>>
    /\ existing_profile = EmptyDict
    /\ new_profile = EmptyDict
    /\ same_object = [name \in SectionNames |-> {}]
    /\ freq_lists = NoLists
    /\ origin = [style |-> NoOrigin, existing |-> NoOrigin, new |-> NoOrigin]
    /\ last_op = "init"
    /\ calls = 0
    /\ server = NoServer
    /\ session = NoSession
    /\ store = NoStore
    /\ \E n \in 0..MaxPool, mix \in {"fit", "short", "long"}:
          samples = [NoSamples EXCEPT !.sentences = Sentences(n, mix)]

\* "sample_sentences": self._get_representative_sentences(all_sentences)
GetRepresentativeSentences ==
    /\ ~samples.done
    /\ samples' = [samples EXCEPT
                       !.result = _get_representative_sentences(samples.sentences, 15),
                       !.done = TRUE]
    /\ UNCHANGED <<style_profile, raw_texts, cleaned_texts, existing_profile, new_profile,
                   same_object, freq_lists, origin, last_op, calls, store, session, server>>

SampleSpec == SampleInit /\ [][GetRepresentativeSentences]_vars

(***************************************************************************)
(* The learn_append flow on corpora whose sentences all have one length:   *)
(* 1 to MaxCopies copies of a document of one sentence of 29 characters,   *)
(* and one corpus of sentences of different lengths.                       *)
(***************************************************************************)
RepeatCorpora ==
    {[i \in 1..k |-> Strip(<<Cap("thanks"), Wd("for"), Wd("the"), Wd("great"),
                              WdP("summary", "!")>>)] : k \in 1..MaxCopies}
        \cup {<<ReplyDoc>>}

RepeatAnalysisOf == CHOOSE table \in {[texts \in RepeatCorpora |-> analyze(texts)]}: table = table

\* new_profile = analyzer.analyze(texts)
AnalyzeRepeated(texts) ==
    /\ calls < MaxCalls
    /\ raw_texts' = texts
    /\ cleaned_texts' = CleanAll(texts)
    /\ style_profile' = RepeatAnalysisOf[texts]
    /\ new_profile' = style_profile'
    /\ same_object' = [name \in SectionNames |-> {"new"}]
    /\ origin' = [origin EXCEPT !.style = AnalyzeOrigin(texts),
                                !.new = AnalyzeOrigin(texts)]
    /\ last_op' = "analyze"
    /\ calls' = calls + 1
    /\ UNCHANGED <<existing_profile, freq_lists, samples, store, session, server>>

RepeatNext ==
    \/ \E texts \in RepeatCorpora: AnalyzeRepeated(texts)
    \/ LoadProfile
    \/ MergeProfiles

RepeatSpec == Init /\ [][RepeatNext]_vars

(***************************************************************************)
(* The sessions of main.py on one profile name: learn and learn-append on  *)
(* sources of 0, 1, 2, 100 and 101 documents.                              *)
(***************************************************************************)
\* max_samples = 100
MaxSamples == 100

SessionAnalysisOf ==
    LET doc(k) == Strip(<<Cap(BulkWords[(k % 24) + 1]), Wd("and"),
                          WdP(BulkWords[(k \div 24) + 1], ".")>>)
        sources == {<<>>, <<LetterDoc>>, <<FragDoc, ReplyDoc>>,
                    [k \in 1..MaxSamples |-> doc(k)], [k \in 1..(MaxSamples + 1) |-> doc(k)]}
    IN  CHOOSE table \in {[texts \in sources |-> analyze(texts)]}: table = table

\* "\n\n---\n\n".join(texts): the texts with the rule line between them
JoinSamples(texts) ==
    LET rule == [Chunk(<<NL, NL>>, "---", "", FALSE, "") EXCEPT !.clip = 2]
    IN  IF texts = <<>> THEN <<>>
        ELSE texts[1] \o Concat([i \in 1..(Len(texts) - 1) |-> <<rule>> \o texts[i + 1]])

\* f.read().split("\n\n---\n\n"): the pieces between the rule lines, one
\* empty piece for an empty file
SplitSamples(content) ==
    LET rule == [Chunk(<<NL, NL>>, "---", "", FALSE, "") EXCEPT !.clip = 2]
    IN  FoldSeq(LAMBDA pieces, c:
                    IF c = rule THEN Append(pieces, <<>>)
                    ELSE [pieces EXCEPT ![Len(pieces)] = Append(@, c)],
                <<<<>>>>, content)

\* the files after learn(source, profile_name), with texts the documents the
\* source yields and profile the result of analyzer.analyze(texts)
learn(files, texts, profile) ==
    IF texts = <<>> THEN files
    ELSE [profile |-> profile, has_profile |-> TRUE,
          samples |-> JoinSamples(texts), has_samples |-> TRUE]

\* learn(source, profile_name)
Learn(texts, profile) ==
    /\ session.count < MaxSessions
    /\ store' = learn(store, texts, profile)
    /\ session' = [kind |-> "learn", texts |-> texts, before |-> store,
                   learned |-> IF texts = <<>> THEN session.learned ELSE Len(texts),
                   count |-> session.count + 1]
    /\ UNCHANGED <<style_profile, raw_texts, cleaned_texts, existing_profile, new_profile,
                   same_object, freq_lists, origin, last_op, calls, samples, server>>

\* a variant of learn_append that saves the new profile instead of the merged one
OverwritingAppend(texts, profile) ==
    /\ session.count < MaxSessions
    /\ store' =
          IF texts = <<>> THEN store
          ELSE [profile |-> profile,
                has_profile |-> TRUE,
                samples |-> JoinSamples(Take(
                                texts \o (IF store.has_profile /\ store.has_samples
                                          THEN SplitSamples(store.samples) ELSE <<>>),
                                MaxSamples)),
                has_samples |-> TRUE]
    /\ session' = [kind |-> "learn_append", texts |-> texts, before |-> store,
                   learned |-> session.learned + Len(texts),
                   count |-> session.count + 1]
    /\ UNCHANGED <<style_profile, raw_texts, cleaned_texts, existing_profile, new_profile,
                   same_object, freq_lists, origin, last_op, calls, samples, server>>

\* a variant of learn_append that keeps one sample less than max_samples
ShortCutAppend(texts, profile) ==
    /\ session.count < MaxSessions
    /\ store' =
          IF texts = <<>> THEN store
          ELSE [profile |-> IF store.has_profile /\ ~IsEmpty(store.profile)
                            THEN merge_profiles(store.profile, profile)
                            ELSE profile,
                has_profile |-> TRUE,
                samples |-> JoinSamples(Take(
                                texts \o (IF store.has_profile /\ store.has_samples
                                          THEN SplitSamples(store.samples) ELSE <<>>),
                                MaxSamples - 1)),
                has_samples |-> TRUE]
    /\ session' = [kind |-> "learn_append", texts |-> texts, before |-> store,
                   learned |-> session.learned + Len(texts),
                   count |-> session.count + 1]
    /\ UNCHANGED <<style_profile, raw_texts, cleaned_texts, existing_profile, new_profile,
                   same_object, freq_lists, origin, last_op, calls, samples, server>>

\* learn_append(source, profile_name), with texts the documents the source
\* yields and profile the result of analyzer.analyze(texts)
LearnAppend(texts, profile) ==
    /\ session.count < MaxSessions
    /\ store' =
          IF texts = <<>> THEN store
          ELSE \* existing_profile is None, and existing_samples [], without a profile file
               [profile |-> IF store.has_profile /\ ~IsEmpty(store.profile)
                            THEN merge_profiles(store.profile, profile)
                            ELSE profile,
                has_profile |-> TRUE,
                samples |-> JoinSamples(Take(
                                texts \o (IF store.has_profile /\ store.has_samples
                                          THEN SplitSamples(store.samples) ELSE <<>>),
                                MaxSamples)),
                has_samples |-> TRUE]
    /\ session' = [kind |-> "learn_append", texts |-> texts, before |-> store,
                   learned |-> session.learned + Len(texts),
                   count |-> session.count + 1]
    /\ UNCHANGED <<style_profile, raw_texts, cleaned_texts, existing_profile, new_profile,
                   same_object, freq_lists, origin, last_op, calls, samples, server>>

SessionNext ==
    \E table \in {SessionAnalysisOf}: \E texts \in DOMAIN table:
        \/ Learn(texts, table[texts])
        \/ LearnAppend(texts, table[texts])

SessionSpec == Init /\ [][SessionNext]_vars

(***************************************************************************)
(* run_stdio_server of mcp_server.py: the request loop over stdin.         *)
(***************************************************************************)
\* json.loads(line.strip()) for the lines of the model: a dict, another JSON
\* value, or JSONDecodeError.  A dict is a function on its keys; a JSON value
\* inside a dict carries its type.
json_loads ==
    LET dict(d) == [type |-> "dict", value |-> d]
    IN  "" :> [type |-> "JSONDecodeError"]
     @@ "hello" :> [type |-> "JSONDecodeError"]
     @@ "[1]" :> [type |-> "list"]
     @@ "{\"jsonrpc\":\"2.0\",\"id\":1,\"method\":\"initialize\"}"
            :> dict([jsonrpc |-> "2.0", id |-> 1, method |-> "initialize"])
     @@ "{\"jsonrpc\":\"2.0\",\"id\":2,\"method\":\"tools/list\"}"
            :> dict([jsonrpc |-> "2.0", id |-> 2, method |-> "tools/list"])
     @@ "{\"jsonrpc\":\"2.0\",\"id\":3,\"method\":\"tools/call\",\"params\":{\"name\":\"list_profiles\"}}"
            :> dict([jsonrpc |-> "2.0", id |-> 3, method |-> "tools/call",
                     params |-> dict([name |-> "list_profiles"])])
     @@ "{\"jsonrpc\":\"2.0\",\"id\":4,\"method\":\"tools/call\",\"params\":null}"
            :> dict([jsonrpc |-> "2.0", id |-> 4, method |-> "tools/call",
                     params |-> [type |-> "null"]])
     @@ "{\"jsonrpc\":\"2.0\",\"id\":5,\"method\":\"tools/call\"}"
            :> dict([jsonrpc |-> "2.0", id |-> 5, method |-> "tools/call"])
     @@ "{\"jsonrpc\":\"2.0\",\"id\":6,\"method\":\"ping\"}"
            :> dict([jsonrpc |-> "2.0", id |-> 6, method |-> "ping"])
     @@ "{\"jsonrpc\":\"2.0\",\"method\":\"ping\"}"
            :> dict([jsonrpc |-> "2.0", method |-> "ping"])

ServerInit ==
    /\ style_profile = EmptyDict
    /\ raw_texts = <<>>
    /\ cleaned_texts = <<>>
    /\ existing_profile = EmptyDict
    /\ new_profile = EmptyDict
    /\ same_object = [name \in SectionNames |-> {}]
    /\ freq_lists = NoLists
    /\ origin = [style |-> NoOrigin, existing |-> NoOrigin, new |-> NoOrigin]
    /\ last_op = "init"
    /\ calls = 0
    /\ samples = NoSamples
    /\ store = NoStore
    /\ session = NoSession
    /\ \E n \in 0..MaxLines: \E lines \in [1..n -> DOMAIN json_loads]:
          server = [NoServer EXCEPT !.stdin = lines]

\* one turn of the while loop: read a line, stop at end of file, write the
\* response to a request or the error response to an exception, write nothing
\* for a line that is no JSON.  The id of a response is request.get("id"),
\* None (<<>>) for a request without id; the result is named by its kind, and
\* handle_tool_call returns a dict for every tool name and arguments.
ReadLine ==
    /\ ~server.stopped
    /\ server' =
          IF server.stdin = <<>> THEN [server EXCEPT !.stopped = TRUE]
          ELSE
          LET line == Head(server.stdin)
              request == json_loads[line]
              error_response ==
                  [jsonrpc |-> "2.0", error |-> [code |-> -32603, message |-> "AttributeError"]]
              response(id, result) == [jsonrpc |-> "2.0", id |-> id, result |-> result]
              written ==
                  IF request.type = "JSONDecodeError" THEN <<>>
                  ELSE IF request.type # "dict" THEN <<error_response>>
                  ELSE
                  LET method == Get(request.value, "method", "")
                      id == IF "id" \in DOMAIN request.value THEN <<request.value.id>> ELSE <<>>
                      params == Get(request.value, "params", [type |-> "dict", value |-> EmptyDict])
                  IN  IF method = "initialize" THEN <<response(id, "serverInfo")>>
                      ELSE IF method = "tools/list" THEN <<response(id, "tools")>>
                      ELSE IF method = "tools/call"
                      THEN IF params.type # "dict" THEN <<error_response>>
                           ELSE <<response(id, "content")>>
                      ELSE <<response(id, "empty")>>
          IN  [stdin |-> Tail(server.stdin),
               stdout |-> server.stdout \o written,
               stopped |-> FALSE,
               log |-> Append(server.log, [line |-> line, written |-> written])]
    /\ UNCHANGED <<style_profile, raw_texts, cleaned_texts, existing_profile, new_profile,
                   same_object, freq_lists, origin, last_op, calls, samples, store, session>>

ServerSpec == ServerInit /\ [][ReadLine]_vars

(***************************************************************************)
(* Vocabulary of the properties.                                           *)
(***************************************************************************)
Registers == {"style", "existing", "new"}

\* the profile a register holds
ProfileOf(r) ==
    IF r = "style" THEN style_profile
    ELSE IF r = "existing" THEN existing_profile ELSE new_profile

\* the profile was produced by analyze or by merge_profiles from analyses
Produced(r) == origin[r].kind # "none" /\ origin[r].pure

\* a field that may be absent: <<value>> or <<>>
Opt(d, k) == IF k \in DOMAIN d THEN <<d[k]>> ELSE <<>>

\* the pattern counts a section of opening or closing patterns carries, under
\* whichever name it carries them
PatternCounts(section) ==
    [k \in {"greeting_patterns", "signoff_patterns"} \cap DOMAIN section |-> section[k]]

\* the count a section of opening or closing patterns records for pattern p
PatternCount(section, p) ==
    Get(Get(section, "signoff_patterns", Get(section, "greeting_patterns", EmptyDict)),
        p, 0)

\* the sum fields of a profile
SumFields(P) ==
    [total_documents |-> Opt(Section(P, "metadata"), "total_documents"),
     total_characters |-> Opt(Section(P, "metadata"), "total_characters"),
     total_sentences |-> Opt(Section(P, "sentence_stats"), "total_sentences"),
     total_paragraphs |-> Opt(Section(P, "paragraph_stats"), "total_paragraphs"),
     total_meaningful_words |-> Opt(Section(P, "vocabulary"), "total_meaningful_words"),
     unique_words |-> Opt(Section(P, "vocabulary"), "unique_words"),
     korean_by_category |-> Opt(Section(P, "transition_analysis"), "korean_by_category"),
     english_by_category |-> Opt(Section(P, "transition_analysis"), "english_by_category"),
     korean_formality |-> Opt(Section(P, "tone_analysis"), "korean_formality"),
     english_formality |-> Opt(Section(P, "tone_analysis"), "english_formality"),
     emotional_indicators |-> Opt(Section(P, "tone_analysis"), "emotional_indicators"),
     greetings |-> PatternCounts(Section(P, "opening_patterns")),
     signoffs |-> PatternCounts(Section(P, "closing_patterns")),
     counts |-> Opt(Section(P, "structural_patterns"), "counts")]

\* the OR flags of a profile
OrFlags(P) == Opt(Section(P, "structural_patterns"), "patterns")

\* min_length and max_length of a profile
Extremes(P) ==
    <<Opt(Section(P, "sentence_stats"), "min_length"),
      Opt(Section(P, "sentence_stats"), "max_length")>>

\* analyze([])
EmptyProfile == AnalysisOf[<<>>]

(***************************************************************************)
(* C1: the empty merge is an identity on both sides.                       *)
(***************************************************************************)
\* C1: for every profile P produced by analyze or by merge_profiles, and for
\* empty being analyze([]) or {}, merge_profiles(P, empty) and
\* merge_profiles(empty, P) both equal P in every field, ranked lists in order.
C1_EmptyMergeIsIdentity ==
    \A r \in Registers:
        Produced(r) =>
            \A empty \in {EmptyProfile, EmptyDict}:
                /\ merge_profiles(ProfileOf(r), empty) = ProfileOf(r)
                /\ merge_profiles(empty, ProfileOf(r)) = ProfileOf(r)

\* the part of C1 the code keeps: the empty profile on the right, and {} on
\* either side, leave P as it is
C1_RightEmptyIsIdentity ==
    \A r \in Registers:
        Produced(r) =>
            /\ merge_profiles(ProfileOf(r), EmptyProfile) = ProfileOf(r)
            /\ merge_profiles(ProfileOf(r), EmptyDict) = ProfileOf(r)
            /\ merge_profiles(EmptyDict, ProfileOf(r)) = ProfileOf(r)

(***************************************************************************)
(* C2: the sum, count and OR fields do not depend on the grouping.         *)
(***************************************************************************)
\* C2: for analyses A, B, C, merge_profiles(merge_profiles(A, B), C) and
\* merge_profiles(A, merge_profiles(B, C)) have the same sum, count and OR
\* fields.  The left grouping is the profile the analyzer holds after merging
\* three analyses one at a time.
C2_GroupingKeepsSumFields ==
    (origin.style.kind = "merge" /\ origin.style.fold /\ Len(origin.style.leaves) = 3) =>
        LET A == AnalysisOf[origin.style.leaves[1]]
            B == AnalysisOf[origin.style.leaves[2]]
            C == AnalysisOf[origin.style.leaves[3]]
            right == merge_profiles(A, merge_profiles(B, C))
        IN  /\ style_profile = merge_profiles(merge_profiles(A, B), C)
            /\ SumFields(style_profile) = SumFields(right)
            /\ OrFlags(style_profile) = OrFlags(right)

(***************************************************************************)
(* C3: the sum, min/max and OR fields do not depend on the order.          *)
(***************************************************************************)
\* C3: for profiles A and B produced by analyze or by earlier merges,
\* merge_profiles(A, B) and merge_profiles(B, A) have the same sum fields, the
\* same min_length and max_length and the same OR flags.
C3_OrderKeepsSumFields ==
    (Produced("existing") /\ Produced("new")) =>
        LET ab == merge_profiles(existing_profile, new_profile)
            ba == merge_profiles(new_profile, existing_profile)
        IN  /\ SumFields(ab) = SumFields(ba)
            /\ Extremes(ab) = Extremes(ba)
            /\ OrFlags(ab) = OrFlags(ba)

(***************************************************************************)
(* C4: merging analyses one at a time adds up the count fields.            *)
(***************************************************************************)
\* the sum of F over the analyses of the leaves
SumOverLeaves(leaves, F(_)) == SumSeq(MapSeq(LAMBDA texts: F(AnalysisOf[texts]), leaves))

GreetingNames ==
    {"annyeonghaseyo", "annyeong", "Hello", "Hi", "Dear", "Good morning/afternoon",
     "Thank you", "gamsahamnida"}

SignoffNames ==
    {"Best regards", "Best", "Thanks", "Thank you", "Sincerely", "gamsahamnida",
     "butakdeurimnida", "malsseumhae juseyo"}

CategoryNames == {Categories[i] : i \in 1..Len(Categories)}

\* field F of the profile the analyzer holds is the sum of F over the leaves
AddsUp(F(_)) == F(style_profile) = SumOverLeaves(origin.style.leaves, F)

\* every count-additive field beside the sign-off pattern counts adds up
CountsBesideSignoffsAddUp ==
    /\ AddsUp(LAMBDA P: Get(Section(P, "metadata"), "total_documents", 0))
    /\ AddsUp(LAMBDA P: Get(Section(P, "metadata"), "total_characters", 0))
    /\ AddsUp(LAMBDA P: Get(Section(P, "sentence_stats"), "total_sentences", 0))
    /\ \A cat \in CategoryNames:
        /\ AddsUp(LAMBDA P: Get(Get(Section(P, "transition_analysis"),
                                    "korean_by_category", EmptyDict), cat, 0))
        /\ AddsUp(LAMBDA P: Get(Get(Section(P, "transition_analysis"),
                                    "english_by_category", EmptyDict), cat, 0))
    /\ \A key \in CountKeys:
        AddsUp(LAMBDA P: Get(Get(Section(P, "structural_patterns"), "counts",
                                 EmptyDict), key, 0))
    /\ \A p \in GreetingNames:
        AddsUp(LAMBDA P: PatternCount(Section(P, "opening_patterns"), p))

\* C4: after analyses P1..Pn were merged one at a time, every count-additive
\* field of the result is the sum of that field over the Pi: the metadata
\* totals, total_sentences, the transition category counts, the structural
\* counts, and each greeting and sign-off pattern count.
C4_FoldAddsCounts ==
    (Produced("style") /\ origin.style.fold) =>
        /\ CountsBesideSignoffsAddUp
        /\ \A p \in SignoffNames:
            AddsUp(LAMBDA P: PatternCount(Section(P, "closing_patterns"), p))

\* the part of C4 the code keeps: every count-additive field but the sign-off
\* pattern counts
C4_FoldAddsCountsBesideSignoffs ==
    (Produced("style") /\ origin.style.fold) => CountsBesideSignoffsAddUp

(***************************************************************************)
(* C5: the merge of two closing sections is a closing section.             *)
(***************************************************************************)
ClosingNames == {"common_last_words", "common_last_phrases", "signoff_patterns",
                 "sample_closings"}

\* count of item x in a ranked list
CountIn(list, x) ==
    LET hits == SelectSeq(list, LAMBDA e: e[1] = x)
    IN  IF hits = <<>> THEN 0 ELSE hits[1][2]

ItemsOf(list) == {list[i][1] : i \in 1..Len(list)}

NonIncreasing(list) == \A i, j \in 1..Len(list): i < j => list[i][2] >= list[j][2]

\* merged is the count-summed union of list1 and list2, sorted and cut at cap
IsSummedUnion(merged, list1, list2, cap) ==
    LET union == ItemsOf(list1) \cup ItemsOf(list2)
        total(x) == CountIn(list1, x) + CountIn(list2, x)
    IN  /\ Len(merged) = Min2(cap, Cardinality(union))
        /\ ItemsOf(merged) \subseteq union
        /\ Cardinality(ItemsOf(merged)) = Len(merged)
        /\ \A i \in 1..Len(merged): merged[i][2] = total(merged[i][1])
        /\ NonIncreasing(merged)
        /\ \A x \in union \ ItemsOf(merged):
              \A i \in 1..Len(merged): total(x) <= merged[i][2]

\* C5: merging two profiles whose closing_patterns are both non-empty gives a
\* closing_patterns section with the closing field names, whose
\* signoff_patterns holds the sum of the two input counts of each pattern and
\* whose common_last_words and common_last_phrases are the count-summed unions
\* of the input lists, sorted and cut at 15.
C5_ClosingMergeKeepsNames ==
    LET ce == Section(existing_profile, "closing_patterns")
        cn == Section(new_profile, "closing_patterns")
        m == Section(merge_profiles(existing_profile, new_profile), "closing_patterns")
    IN  (Produced("existing") /\ Produced("new") /\ ~IsEmpty(ce) /\ ~IsEmpty(cn)) =>
            /\ DOMAIN m = ClosingNames
            /\ \A p \in SignoffNames:
                  Get(m.signoff_patterns, p, 0)
                  = PatternCount(ce, p) + PatternCount(cn, p)
            /\ IsSummedUnion(m.common_last_words, Get(ce, "common_last_words", <<>>),
                             Get(cn, "common_last_words", <<>>), 15)
            /\ IsSummedUnion(m.common_last_phrases, Get(ce, "common_last_phrases", <<>>),
                             Get(cn, "common_last_phrases", <<>>), 15)

(***************************************************************************)
(* Exact arithmetic on dyadic numbers <<M, E>> = M * 2^E, M a whole number *)
(* of any size; every float is one.                                        *)
(***************************************************************************)
\* the whole number M' with a = M' * 2^e, for e <= a[2]
DyAt(a, e) == BShl(a[1], a[2] - e)

DyAdd(a, b) ==
    LET e == Min2(a[2], b[2])
    IN  <<BAdd(DyAt(a, e), DyAt(b, e)), e>>

\* a * n for an int n >= 0
DyTimes(a, n) == <<BMul(a[1], BFromInt(n)), a[2]>>

\* a <= b
DyLeq(a, b) ==
    LET e == Min2(a[2], b[2])
    IN  ~BLess(DyAt(b, e), DyAt(a, e))

DyEq(a, b) == DyLeq(a, b) /\ DyLeq(b, a)

\* abs(a - b)
DyAbsDiff(a, b) ==
    LET e == Min2(a[2], b[2])
    IN  IF DyLeq(a, b) THEN <<BSub(DyAt(b, e), DyAt(a, e)), e>>
        ELSE <<BSub(DyAt(a, e), DyAt(b, e)), e>>

\* a and b agree up to float rounding: abs(a - b) <= 2^-48 * b
Close(a, b) ==
    LET d == DyAbsDiff(a, b)
    IN  DyLeq(<<d[1], d[2] + 48>>, b)

(***************************************************************************)
(* C6: means are merged weighted by the item counts.                       *)
(***************************************************************************)
\* the two sides of C6 for one section: the merged mean times the number of
\* items, and n1 * a1 + n2 * a2
MeanTimesCount(merged, count_key, k) == DyTimes(merged[k], merged[count_key])

WeightedSum(e, n, count_key, k) ==
    DyAdd(DyTimes(Get(e, k, FZero), e[count_key]), DyTimes(Get(n, k, FZero), n[count_key]))

\* the formula (n1*a1 + n2*a2) / (n1 + n2) as Python evaluates it
FormulaInFloats(e, n, count_key, k) ==
    FDivInt(FAdd(FMul(FFromInt(e[count_key]), Get(e, k, FZero)),
                 FMul(FFromInt(n[count_key]), Get(n, k, FZero))),
            e[count_key] + n[count_key])

\* both inputs of the last merge have the section, with items
BothHave(name, count_key) ==
    /\ last_op = "merge"
    /\ ~IsEmpty(Section(existing_profile, name))
    /\ ~IsEmpty(Section(new_profile, name))
    /\ Section(existing_profile, name)[count_key]
       + Section(new_profile, name)[count_key] > 0

\* 10 sentences of average length 40 merged with 10 of average length 80
TenAtForty == [total_sentences |-> 10, avg_length_chars |-> FFromInt(40)]

TenAtEighty == [total_sentences |-> 10, avg_length_chars |-> FFromInt(80)]

ScenarioGivesSixty ==
    LET m == _merge_sentence_stats(TenAtForty, TenAtEighty)
    IN  m.total_sentences = 20 /\ m.avg_length_chars = FFromInt(60)

\* the mean k of a section is merged exactly as the formula says, whether the
\* formula is evaluated in floats or in exact arithmetic
MeanIsFormula(name, count_key, k) ==
    LET e == Section(existing_profile, name)
        n == Section(new_profile, name)
        m == Section(style_profile, name)
    IN  /\ m[count_key] = e[count_key] + n[count_key]
        /\ \/ m[k] = FormulaInFloats(e, n, count_key, k)
           \/ DyEq(MeanTimesCount(m, count_key, k), WeightedSum(e, n, count_key, k))

\* the mean k of a section is merged as the formula says up to float rounding
MeanIsNearFormula(name, count_key, k) ==
    LET e == Section(existing_profile, name)
        n == Section(new_profile, name)
        m == Section(style_profile, name)
    IN  /\ m[count_key] = e[count_key] + n[count_key]
        /\ Close(MeanTimesCount(m, count_key, k), WeightedSum(e, n, count_key, k))

\* C6 as stated: when both sentence_stats are non-empty with counts n1, n2 and
\* n1 + n2 > 0, the merged total_sentences is n1 + n2 and the merged
\* avg_length_chars is (n1*a1 + n2*a2) / (n1 + n2), so that 10 sentences at 40
\* merged with 10 at 80 give 20 at 60; paragraph_stats merge the same way,
\* weighted by total_paragraphs.
C6_MeanIsWeightedExactly ==
    /\ ScenarioGivesSixty
    /\ BothHave("sentence_stats", "total_sentences") =>
          MeanIsFormula("sentence_stats", "total_sentences", "avg_length_chars")
    /\ BothHave("paragraph_stats", "total_paragraphs") =>
          MeanIsFormula("paragraph_stats", "total_paragraphs", "avg_length_chars")

\* C6, amended: the counts add up exactly, the scenario gives exactly 60, and
\* the merged avg_length_chars of sentence_stats and of paragraph_stats is
\* (n1*a1 + n2*a2) / (n1 + n2) up to float rounding (relative error at most
\* 2^-48).
C6_MeanIsWeighted ==
    /\ ScenarioGivesSixty
    /\ BothHave("sentence_stats", "total_sentences") =>
          MeanIsNearFormula("sentence_stats", "total_sentences", "avg_length_chars")
    /\ BothHave("paragraph_stats", "total_paragraphs") =>
          MeanIsNearFormula("paragraph_stats", "total_paragraphs", "avg_length_chars")

\* a merge of two sides with different counts and different means, for the
\* sentences and for the paragraphs
C6_UnequalSidesMerged ==
    /\ BothHave("sentence_stats", "total_sentences")
    /\ BothHave("paragraph_stats", "total_paragraphs")
    /\ \A name \in {"sentence_stats", "paragraph_stats"}:
          LET e == Section(existing_profile, name)
              n == Section(new_profile, name)
              count_key == IF name = "sentence_stats" THEN "total_sentences"
                           ELSE "total_paragraphs"
          IN  /\ e[count_key] # n[count_key]
              /\ e.avg_length_chars # n.avg_length_chars
              /\ Section(style_profile, name).avg_length_chars
                 \notin {e.avg_length_chars, n.avg_length_chars}

(***************************************************************************)
(* C7: merging two analyses against analysing the two corpora together.    *)
(***************************************************************************)
\* analyze(A followed by B), computed once for every pair of corpora
UnionAnalysisOf ==
    CHOOSE table \in {[p \in Corpora \X Corpora |-> analyze(p[1] \o p[2])]}: table = table

\* the last merge was of analyze(A) and analyze(B)
MergedTwoAnalyses ==
    /\ last_op = "merge"
    /\ origin.existing.kind = "analyze"
    /\ origin.new.kind = "analyze"

\* analyze(A followed by B) for the A and B of the last merge
UnionProfile == UnionAnalysisOf[<<origin.existing.leaves[1], origin.new.leaves[1]>>]

\* the totals C7 names
Totals(P) ==
    <<Opt(Section(P, "metadata"), "total_documents"),
      Opt(Section(P, "metadata"), "total_characters"),
      Opt(Section(P, "sentence_stats"), "total_sentences"),
      Opt(Section(P, "paragraph_stats"), "total_paragraphs")>>

\* the means and percentages C7 names; 0.0 stands for an absent one
Means(P) ==
    LET s == Section(P, "sentence_stats")
        d == Get(s, "length_distribution", EmptyDict)
    IN  <<Get(s, "avg_length_chars", FZero), Get(s, "avg_word_count", FZero),
          Get(d, "short_pct", FZero), Get(d, "medium_pct", FZero),
          Get(d, "long_pct", FZero)>>

\* the sections of the means are present in both profiles or in neither
SameShape(P, Q) ==
    /\ DOMAIN Section(P, "sentence_stats") = DOMAIN Section(Q, "sentence_stats")
    /\ DOMAIN Get(Section(P, "sentence_stats"), "length_distribution", EmptyDict)
       = DOMAIN Get(Section(Q, "sentence_stats"), "length_distribution", EmptyDict)

\* C7 as stated: merge_profiles(analyze(A), analyze(B)) has the same metadata
\* totals, total_sentences, total_paragraphs, avg_length_chars, avg_word_count
\* and length_distribution percentages as analyze(A followed by B).
C7_MergeEqualsUnionExactly ==
    MergedTwoAnalyses =>
        /\ Totals(style_profile) = Totals(UnionProfile)
        /\ SameShape(style_profile, UnionProfile)
        /\ Means(style_profile) = Means(UnionProfile)

\* C7, amended: the totals are the same, and avg_length_chars, avg_word_count
\* and the length_distribution percentages are the same up to float rounding
\* (relative error at most 2^-48).
C7_MergeEqualsUnion ==
    MergedTwoAnalyses =>
        /\ Totals(style_profile) = Totals(UnionProfile)
        /\ SameShape(style_profile, UnionProfile)
        /\ \A i \in 1..5: Close(Means(style_profile)[i], Means(UnionProfile)[i])

\* two analyses with sentences were merged, of different counts and means
C7_TwoAnalysesMerged ==
    /\ MergedTwoAnalyses
    /\ BothHave("sentence_stats", "total_sentences")
    /\ existing_profile.sentence_stats.total_sentences
       # new_profile.sentence_stats.total_sentences
    /\ existing_profile.sentence_stats.avg_length_chars
       # new_profile.sentence_stats.avg_length_chars
    /\ existing_profile.sentence_stats.length_distribution
       # new_profile.sentence_stats.length_distribution


(***************************************************************************)
(* C8: no list grows beyond its cap.                                       *)
(***************************************************************************)
\* the list a section holds under key, [] when it holds none
ListIn(P, section, key) == Get(Section(P, section), key, <<>>)

\* the registers that hold a profile
Held == {r \in Registers: origin[r].kind # "none"}

PatternSections == {"opening_patterns", "closing_patterns"}

\* C8: in every profile reached by analyze and any number of merge_profiles
\* calls no ranked or sample list exceeds its cap: top words 20, common
\* first/last words and phrases 15, top transitions 10 per language,
\* signature_bigrams 15, signature_trigrams 10, sample_sentences 15, sample
\* openings/closings 10.
C8_ListsWithinCaps ==
    \A r \in Held:
        LET P == ProfileOf(r)
        IN  /\ Len(ListIn(P, "vocabulary", "top_korean_words")) <= 20
            /\ Len(ListIn(P, "vocabulary", "top_english_words")) <= 20
            /\ \A sec \in PatternSections:
                  /\ \A key \in {"common_first_words", "common_first_phrases",
                                 "common_last_words", "common_last_phrases"}:
                        Len(ListIn(P, sec, key)) <= 15
                  /\ \A key \in {"sample_openings", "sample_closings"}:
                        Len(ListIn(P, sec, key)) <= 10
            /\ Len(ListIn(P, "transition_analysis", "top_korean_transitions")) <= 10
            /\ Len(ListIn(P, "transition_analysis", "top_english_transitions")) <= 10
            /\ Len(ListIn(P, "signature_phrases", "signature_bigrams")) <= 15
            /\ Len(ListIn(P, "signature_phrases", "signature_trigrams")) <= 10
            /\ Len(Get(P, "sample_sentences", <<>>)) <= 15

\* a merge whose two top_english_words lists hold more than 20 words together
\* and whose result holds exactly 20
C8_MergeCutAtCap ==
    /\ last_op = "merge"
    /\ Cardinality(ItemsOf(ListIn(existing_profile, "vocabulary", "top_english_words"))
                   \cup ItemsOf(ListIn(new_profile, "vocabulary", "top_english_words")))
       > 20
    /\ Len(ListIn(style_profile, "vocabulary", "top_english_words")) = 20

(***************************************************************************)
(* C9: ranked lists are sorted, ties in first-seen order.                  *)
(***************************************************************************)
\* the ranked lists of a profile: <<section, key, the key's other name>>
RankedFields ==
    {<<"vocabulary", "top_korean_words", "top_korean_words">>,
     <<"vocabulary", "top_english_words", "top_english_words">>,
     <<"opening_patterns", "common_first_words", "common_last_words">>,
     <<"opening_patterns", "common_first_phrases", "common_last_phrases">>,
     <<"closing_patterns", "common_first_words", "common_last_words">>,
     <<"closing_patterns", "common_first_phrases", "common_last_phrases">>,
     <<"transition_analysis", "top_korean_transitions", "top_korean_transitions">>,
     <<"transition_analysis", "top_english_transitions", "top_english_transitions">>,
     <<"signature_phrases", "signature_bigrams", "signature_bigrams">>,
     <<"signature_phrases", "signature_trigrams", "signature_trigrams">>}

\* the ranked list f of profile P, under whichever name the section has it
Ranked(P, f) == Get(Section(P, f[1]), f[2], Get(Section(P, f[1]), f[3], <<>>))

\* the items of a ranked list, in order
Items(list) == [i \in 1..Len(list) |-> list[i][1]]

\* index of the first occurrence of x in seq
FirstIndex(seq, x) == CHOOSE i \in 1..Len(seq): seq[i] = x /\ \A j \in 1..(i - 1): seq[j] # x

\* items of equal count stand in list in the order of their first occurrence
\* in seen
TiesFollow(list, seen) ==
    \A i, j \in 1..Len(list):
        (i < j /\ list[i][2] = list[j][2]) =>
            FirstIndex(seen, list[i][1]) < FirstIndex(seen, list[j][1])

\* the words of the cleaned texts, in reading order
WordsRead == MapSeq(LAMBDA c: c.w, WordChunks(Join(cleaned_texts, <<SP>>)))

\* the transitions of a catalogue, in catalogue order
CatalogueOrder(catalogue) == Concat(MapSeq(LAMBDA cat: catalogue[cat], Categories))

FLeq(a, b) == ~FLess(b, a)

\* C10: in every profile reached by analyze and merge_profiles
\* 0 <= vocabulary_richness <= 1, unique_words <= total_meaningful_words, and
\* vocabulary_richness = 0 whenever total_meaningful_words = 0.
C10_RichnessIsRatio ==
    \A r \in Held:
        LET v == Section(ProfileOf(r), "vocabulary")
        IN  ~IsEmpty(v) =>
                /\ FLeq(FZero, v.vocabulary_richness)
                /\ FLeq(v.vocabulary_richness, FFromInt(1))
                /\ v.unique_words <= v.total_meaningful_words
                /\ v.total_meaningful_words = 0 => v.vocabulary_richness = FZero

\* a merge of two vocabularies with words whose richness comes out strictly
\* between 0 and 1
C10_MergedRichnessBelowOne ==
    /\ last_op = "merge"
    /\ ~IsEmpty(Section(existing_profile, "vocabulary"))
    /\ ~IsEmpty(Section(new_profile, "vocabulary"))
    /\ existing_profile.vocabulary.total_meaningful_words > 0
    /\ new_profile.vocabulary.total_meaningful_words > 0
    /\ style_profile.vocabulary.unique_words < style_profile.vocabulary.total_meaningful_words
    /\ FLess(FZero, style_profile.vocabulary.vocabulary_richness)
    /\ FLess(style_profile.vocabulary.vocabulary_richness, FFromInt(1))

(***************************************************************************)
(* C11: the three length buckets cover every sentence.                     *)
(***************************************************************************)
\* short_pct + medium_pct + long_pct of a sentence_stats section, exactly
PctSum(stats) ==
    LET d == stats.length_distribution
    IN  DyAdd(DyAdd(d.short_pct, d.medium_pct), d.long_pct)

Hundred == <<BFromInt(100), 0>>

\* the sentence_stats of the profiles held that count at least one sentence
CountedStats ==
    {s \in {Section(ProfileOf(r), "sentence_stats") : r \in Registers}:
        ~IsEmpty(s) /\ s.total_sentences > 0}

StructureSections ==
    {s \in {Section(ProfileOf(r), "structural_patterns") : r \in Registers}: ~IsEmpty(s)}

\* the flag is true exactly when the count is at least 1
FlagAgrees(s, flag, count) == s.patterns[flag] <=> s.counts[count] >= 1

\* a corpus with the two bullet lines "- item one" and "- item two" was analysed
TwoBulletLinesAnalysed == origin.style = AnalyzeOrigin(<<ListDoc, FragDoc>>)

TwoBulletsCounted ==
    TwoBulletLinesAnalysed =>
        LET s == Section(style_profile, "structural_patterns")
        IN  s.patterns.uses_bullet_points /\ s.counts.bullet_count = 2

\* C12: in every profile reached by analyze and merge_profiles,
\* uses_bullet_points is true exactly when bullet_count >= 1, uses_numbering
\* exactly when number_count >= 1 and uses_headers exactly when
\* header_count >= 1; a corpus of two bullet lines gives uses_bullet_points
\* true and bullet_count 2.
C12_FlagsAgreeWithCounts ==
    /\ TwoBulletsCounted
    /\ \A s \in StructureSections:
          /\ FlagAgrees(s, "uses_bullet_points", "bullet_count")
          /\ FlagAgrees(s, "uses_numbering", "number_count")
          /\ FlagAgrees(s, "uses_headers", "header_count")

\* the part of C12 about bullets and numbering
C12_BulletAndNumberFlagsAgree ==
    /\ TwoBulletsCounted
    /\ \A s \in StructureSections:
          /\ FlagAgrees(s, "uses_bullet_points", "bullet_count")
          /\ FlagAgrees(s, "uses_numbering", "number_count")

(***************************************************************************)
(* C13: the primary tones follow the formality counts.                     *)
(***************************************************************************)
\* the tone_analysis sections of the profiles held
ToneSections ==
    {t \in {Section(ProfileOf(r), "tone_analysis") : r \in Registers}: ~IsEmpty(t)}

\* formal exactly when the formal count exceeds the casual one, else casual
ToneFollows(tone, formal, casual) ==
    /\ tone \in {"formal", "casual"}
    /\ tone = "formal" <=> formal > casual

TonesFollowCounts(t) ==
    /\ ToneFollows(t.primary_korean_tone,
                   t.korean_formality.formal_high, t.korean_formality.informal)
    /\ ToneFollows(t.primary_english_tone,
                   t.english_formality.formal, t.english_formality.casual)

\* the last merge had a tone_analysis on both sides
BothHaveTones ==
    /\ last_op = "merge"
    /\ ~IsEmpty(Section(existing_profile, "tone_analysis"))
    /\ ~IsEmpty(Section(new_profile, "tone_analysis"))

\* the merged tones are decided from the sums of the two sides' counts
TonesFromSums ==
    LET e == Section(existing_profile, "tone_analysis")
        n == Section(new_profile, "tone_analysis")
        m == Section(style_profile, "tone_analysis")
    IN  /\ ToneFollows(m.primary_korean_tone,
                       e.korean_formality.formal_high + n.korean_formality.formal_high,
                       e.korean_formality.informal + n.korean_formality.informal)
        /\ ToneFollows(m.primary_english_tone,
                       e.english_formality.formal + n.english_formality.formal,
                       e.english_formality.casual + n.english_formality.casual)

\* C13: in every profile reached by analyze and merge_profiles,
\* primary_korean_tone is formal exactly when formal_high > informal and
\* primary_english_tone is formal exactly when formal > casual, otherwise
\* casual (ties give casual); after a merge the tones are decided from the
\* summed counts, not copied from an input.
C13_TonesFollowCounts ==
    /\ \A t \in ToneSections: TonesFollowCounts(t)
    /\ BothHaveTones => TonesFromSums

\* a merge whose English tone differs from the one the existing side records,
\* decided by a tie of the summed counts
C13_MergedToneOverturned ==
    /\ BothHaveTones
    /\ LET e == Section(existing_profile, "tone_analysis")
           m == Section(style_profile, "tone_analysis")
       IN  /\ m.primary_english_tone # e.primary_english_tone
           /\ m.english_formality.formal = m.english_formality.casual
           /\ m.english_formality.formal > 0

(***************************************************************************)
(* C14: the sample lists of a merge.                                       *)
(***************************************************************************)
\* (new + existing)[:cap]
NewThenExisting(new, existing, cap) == Take(new \o existing, cap)

\* the sample list key of the merged section is the two sides' lists, the new
\* side's first, cut at cap
SamplesConcatenated(name, key, cap) ==
    LET e == Section(existing_profile, name)
        n == Section(new_profile, name)
        m == Section(style_profile, name)
    IN  Get(m, key, <<>>)
        = NewThenExisting(Get(n, key, <<>>), Get(e, key, <<>>), cap)

\* the part of C14 about sample_sentences
C14_SampleSentencesConcatenated ==
    last_op = "merge" =>
        Get(style_profile, "sample_sentences", <<>>)
        = NewThenExisting(Get(new_profile, "sample_sentences", <<>>),
                          Get(existing_profile, "sample_sentences", <<>>), 15)

\* the part of C14 about sample_openings
C14_SampleOpeningsConcatenated ==
    last_op = "merge" => SamplesConcatenated("opening_patterns", "sample_openings", 10)

\* C14: for sample_sentences (cap 15), sample_openings and sample_closings
\* (cap 10), the merged list is the new profile's list followed by the existing
\* profile's list, cut at the cap; when the new list is shorter than the cap,
\* the remaining slots are filled from the existing list as far as it goes.
C14_SamplesNewThenExisting ==
    /\ C14_SampleSentencesConcatenated
    /\ C14_SampleOpeningsConcatenated
    /\ last_op = "merge" =>
          SamplesConcatenated("closing_patterns", "sample_closings", 10)

(***************************************************************************)
(* C15, C16: what a merge does to the profiles it is given.                *)
(***************************************************************************)
\* the step is a call of merge_profiles
MergeStep == last_op' = "merge" /\ calls' = calls + 1

\* C15: merge_profiles(existing, new) leaves both argument profiles unchanged:
\* every field and nested list or mapping of existing and of new has the same
\* content after the call as before it.
C15_MergeLeavesInputsUnchanged ==
    [][MergeStep => existing_profile' = existing_profile /\ new_profile' = new_profile]_vars

\* a merge of two profiles with sentences that built a profile different from
\* both
C15_MergedDiffersFromInputs ==
    /\ BothHave("sentence_stats", "total_sentences")
    /\ style_profile # existing_profile
    /\ style_profile # new_profile
    /\ existing_profile # new_profile

\* C16: the profile returned by merge_profiles shares no mutable sub-structure
\* with either input, also when one side's section is empty and the merge
\* function returns the other side: no section of the merged profile is the
\* very dict or list an input holds, so that changing it cannot change an input.
C16_MergedSharesNothing ==
    last_op = "merge" => \A name \in SectionNames: same_object[name] = {}

\* the part of C16 for merges in which every section has content on both
\* sides
C16_FullMergeSharesNothing ==
    (/\ last_op = "merge"
     /\ \A name \in SectionNames \ {"metadata", "sample_sentences"}:
           /\ ~IsEmpty(Section(existing_profile, name))
           /\ ~IsEmpty(Section(new_profile, name)))
    => \A name \in SectionNames: same_object[name] = {}

\* ---------------------------------------------------------------------------
\* C17: the profile of a corpus without sentences
\* ---------------------------------------------------------------------------

\* the fields the profile description lists for each section that is a dict
SectionFields ==
    [name \in SectionNames \ {"sample_sentences"} |->
        CASE name = "metadata" -> {"total_documents", "total_characters"}
          [] name = "sentence_stats" ->
                {"avg_length_chars", "std_dev_length", "avg_word_count", "min_length",
                 "max_length", "total_sentences", "length_distribution"}
          [] name = "paragraph_stats" ->
                {"avg_length_chars", "avg_sentences_per_para", "total_paragraphs",
                 "single_sentence_para_pct"}
          [] name = "vocabulary" ->
                {"total_meaningful_words", "unique_words", "vocabulary_richness",
                 "top_korean_words", "top_english_words"}
          [] name = "opening_patterns" ->
                {"common_first_words", "common_first_phrases", "greeting_patterns",
                 "sample_openings"}
          [] name = "closing_patterns" ->
                {"common_last_words", "common_last_phrases", "signoff_patterns",
                 "sample_closings"}
          [] name = "transition_analysis" ->
                {"korean_by_category", "english_by_category", "top_korean_transitions",
                 "top_english_transitions"}
          [] name = "tone_analysis" ->
                {"korean_formality", "english_formality", "primary_korean_tone",
                 "primary_english_tone", "emotional_indicators"}
          [] name = "structural_patterns" -> {"patterns", "counts"}
          [] name = "signature_phrases" -> {"signature_bigrams", "signature_trigrams"}]

\* every section of the profile is there with all of its fields
CompleteProfile(profile) ==
    /\ SectionNames \subseteq DOMAIN profile
    /\ \A name \in DOMAIN SectionFields: SectionFields[name] \subseteq DOMAIN profile[name]

\* the analyzer has just analysed a corpus that has no sentence
NoSentenceAnalysed ==
    /\ last_op = "analyze"
    /\ \A i \in 1..Len(cleaned_texts): _split_sentences(cleaned_texts[i]) = <<>>

\* the sentence and paragraph counts of a profile are there and are 0
ZeroCounts(profile) ==
    /\ Get(profile.sentence_stats, "total_sentences", -1) = 0
    /\ Get(profile.paragraph_stats, "total_paragraphs", -1) = 0
    /\ profile.metadata.total_documents = 0

\* C17: analyze on a corpus without sentences returns a complete profile, every
\* section with all of its fields, and for analyze([]) the document, sentence
\* and paragraph counts are 0
C17_EmptyAnalysisIsComplete ==
    NoSentenceAnalysed =>
        /\ CompleteProfile(style_profile)
        /\ raw_texts = <<>> => ZeroCounts(style_profile)

\* what analyze does return for such a corpus: the sections whose extractor
\* guards the empty pool are complete, the four others are empty dicts
C17_GuardedSectionsComplete ==
    NoSentenceAnalysed =>
        /\ SectionNames \subseteq DOMAIN style_profile
        /\ \A name \in {"sentence_stats", "paragraph_stats", "opening_patterns",
                        "closing_patterns"}: style_profile[name] = EmptyDict
        /\ \A name \in {"metadata", "vocabulary", "transition_analysis", "tone_analysis",
                        "structural_patterns", "signature_phrases"}:
               SectionFields[name] \subseteq DOMAIN style_profile[name]

\* ---------------------------------------------------------------------------
\* C18: merging profiles that lack fields
\* ---------------------------------------------------------------------------

\* the removed fields that hold a count, a bound or a ranked list (a weighted
\* mean is another matter: its weight changes with the other side's count)
PlainFields == RemovedFields \ {<<"sentence_stats", "avg_length_chars">>}

\* a field that one side lacks and the other has comes out of the merge with
\* the value of the side that has it
MissingFieldTakesOther(name, field) ==
    \E e \in {Section(existing_profile, name)}, n \in {Section(new_profile, name)}:
        /\ (field \notin DOMAIN e /\ field \in DOMAIN n)
              => Get(style_profile[name], field, "absent") = n[field]
        /\ (field \in DOMAIN e /\ field \notin DOMAIN n)
              => Get(style_profile[name], field, "absent") = e[field]

\* one of the two merged profiles lacks the field, the other has it
OneSideLacks(name, field) ==
    (field \in DOMAIN Section(existing_profile, name))
        # (field \in DOMAIN Section(new_profile, name))

\* C18: merge_profiles completes on profiles that lack fields and treats a
\* missing field as its zero value, so that the merged value of a field missing
\* on one side is the other side's value; e.g. existing opening_patterns without
\* common_first_words merged with a new one that has it gives the new side's
C18_MissingFieldTakesOther ==
    last_op = "merge" => \A r \in PlainFields: MissingFieldTakesOther(r[1], r[2])

\* the same for every plain field but the opening patterns' common_first_words
C18_MissingFieldOutsidePatterns ==
    last_op = "merge" =>
        \A r \in PlainFields \ {<<"opening_patterns", "common_first_words">>}:
            MissingFieldTakesOther(r[1], r[2])

\* ... and for common_first_words when it is the new side that lacks it
C18_NewSideLacksFirstWords ==
    (/\ last_op = "merge"
     /\ "common_first_words" \in DOMAIN Section(existing_profile, "opening_patterns"))
        => MissingFieldTakesOther("opening_patterns", "common_first_words")

\* what the code gives when the existing side lacks common_first_words: it
\* takes the field for a closing section's and merges the common_last_words
C18_ExistingLacksFirstWords ==
    (/\ last_op = "merge"
     /\ "common_first_words" \notin DOMAIN Section(existing_profile, "opening_patterns"))
        => style_profile.opening_patterns.common_first_words = <<>>

\* ---------------------------------------------------------------------------
\* C19: min_length and max_length of merged sentence_stats
\* ---------------------------------------------------------------------------

\* the values of a field on the sides that have it
InputValues(field) ==
    {side[field] : side \in {s \in {Section(existing_profile, "sentence_stats"),
                                     Section(new_profile, "sentence_stats")}:
                                field \in DOMAIN s}}

SmallestOf(values) == CHOOSE v \in values: \A other \in values: v <= other

LargestOf(values) == CHOOSE v \in values: \A other \in values: v >= other

\* merge_profiles has merged two sentence_stats that both have content
BothStatsMerged ==
    /\ last_op = "merge"
    /\ ~IsEmpty(Section(existing_profile, "sentence_stats"))
    /\ ~IsEmpty(Section(new_profile, "sentence_stats"))

\* merged min_length and max_length are the smallest and the largest of the
\* values that the two sides have
MinMaxOfInputs ==
    /\ InputValues("min_length") # {} =>
          Get(style_profile.sentence_stats, "min_length", -1)
              = SmallestOf(InputValues("min_length"))
    /\ InputValues("max_length") # {} =>
          Get(style_profile.sentence_stats, "max_length", -1)
              = LargestOf(InputValues("max_length"))

\* the sentence count that _merge_sentence_stats adds up
TotalCount ==
    Get(Section(existing_profile, "sentence_stats"), "total_sentences", 0)
        + Get(Section(new_profile, "sentence_stats"), "total_sentences", 0)

\* C19: when both sentence_stats are non-empty, merged min_length is the
\* smaller of the two input min_length values and merged max_length the larger
\* of the two input max_length values, also when the sides count no sentence
\* and when a side lacks the field
C19_MinMaxOfInputs == BothStatsMerged => MinMaxOfInputs

\* the same when the two sides count at least one sentence between them
C19_MinMaxWhenCounted == (BothStatsMerged /\ TotalCount > 0) => MinMaxOfInputs

\* when they count none, the merged section is the existing one as it is
C19_ExistingKeptWhenUncounted ==
    (BothStatsMerged /\ TotalCount = 0) =>
        style_profile.sentence_stats = existing_profile.sentence_stats

\* ---------------------------------------------------------------------------
\* C20: merging three ranked lists in the two groupings
\* ---------------------------------------------------------------------------

\* the (item, count) pairs of a ranked list without their order
CountsOf(list) == {<<list[i][1], list[i][2]>> : i \in DOMAIN list}

\* merge_freq_lists has returned for both groupings of a, b and c
BothGroupingsMerged == freq_lists.done = {"left", "right"}

\* the three lists are each within the limit of the trigrams
ListsWithinCap ==
    /\ Len(freq_lists.a) <= 10
    /\ Len(freq_lists.b) <= 10
    /\ Len(freq_lists.c) <= 10

\* the different items of the three lists, taken together
AllItems == ItemsOf(freq_lists.a) \cup ItemsOf(freq_lists.b) \cup ItemsOf(freq_lists.c)

\* the two groupings gave the same items with the same counts
SameItemsAndCounts == CountsOf(freq_lists.left) = CountsOf(freq_lists.right)

\* C20 as stated: for any three ranked lists within the cap, merging (a merged
\* with b) with c gives the same items and counts as merging a with (b merged
\* with c)
C20_MergeAssociative == (BothGroupingsMerged /\ ListsWithinCap) => SameItemsAndCounts

\* C20 amended: the two groupings give the same items and counts when the three
\* lists together hold no more different items than the cap, so that nothing is
\* cut from any intermediate result
C20_AssociativeWithoutCut ==
    (BothGroupingsMerged /\ Cardinality(AllItems) <= 10) => SameItemsAndCounts

\* three non-empty lists with shared items that fill the cap exactly have been
\* merged in both groupings, the shared counts summed
C20_FullCapMerged ==
    /\ BothGroupingsMerged
    /\ freq_lists.a # <<>> /\ freq_lists.b # <<>> /\ freq_lists.c # <<>>
    /\ Cardinality(AllItems) = 10
    /\ ItemsOf(freq_lists.a) \cap ItemsOf(freq_lists.b) # {}
    /\ ItemsOf(freq_lists.b) \cap ItemsOf(freq_lists.c) # {}
    /\ Len(freq_lists.left) = 10
    /\ SameItemsAndCounts

\* ---------------------------------------------------------------------------
\* C21: merges whose counts add up to 0
\* ---------------------------------------------------------------------------

\* a merge function that raised left an error in place of its section
Raised(section) == "error" \in DOMAIN section

\* both sides of a section have content and their counts add up to 0
UncountedSides(name, count_key) ==
    /\ ~IsEmpty(Section(existing_profile, name))
    /\ ~IsEmpty(Section(new_profile, name))
    /\ Get(Section(existing_profile, name), count_key, 0)
         + Get(Section(new_profile, name), count_key, 0) = 0

\* C21: no merge fails on a zero denominator: merging two non-empty
\* sentence_stats or paragraph_stats whose counts are both 0 completes, and
\* merging vocabularies whose total_meaningful_words add up to 0 gives
\* vocabulary_richness = 0
C21_NoZeroDenominator ==
    last_op = "merge" =>
        /\ \A name \in {"sentence_stats", "paragraph_stats", "vocabulary"}:
               ~Raised(style_profile[name])
        /\ UncountedSides("vocabulary", "total_meaningful_words")
              => style_profile.vocabulary.vocabulary_richness = FZero

\* two sentence_stats with content that count no sentence have been merged
C21_UncountedStatsMerged ==
    /\ last_op = "merge"
    /\ UncountedSides("sentence_stats", "total_sentences")
    /\ ~IsEmpty(style_profile.sentence_stats)

\* two vocabularies with words listed and no total have been merged
C21_UncountedVocabularyMerged ==
    /\ last_op = "merge"
    /\ UncountedSides("vocabulary", "total_meaningful_words")
    /\ style_profile.vocabulary.unique_words > 0

\* ---------------------------------------------------------------------------
\* C22: the counts of the signature phrases
\* ---------------------------------------------------------------------------

\* every entry of a profile's signature lists was counted at least 3 times
SignaturesCounted(profile) ==
    \A key \in {"signature_bigrams", "signature_trigrams"}:
        \E list \in {Get(Section(profile, "signature_phrases"), key, <<>>)}:
            \A i \in 1..Len(list): list[i][2] >= 3

AnalysedParagraphs == Concat(MapSeq(SplitParagraphs, cleaned_texts))

\* C23: every non-empty paragraph contributes exactly one opening and exactly
\* one closing, a paragraph without a sentence by its first 100 characters, so
\* that there are as many openings and closings as paragraphs (the samples
\* show the first 10 of them)
C23_OneOpeningPerParagraph ==
    (last_op = "analyze" /\ AnalysedParagraphs # <<>>) =>
        /\ Len(style_profile.opening_patterns.sample_openings)
             = Min2(Len(AnalysedParagraphs), 10)
        /\ Len(style_profile.closing_patterns.sample_closings)
             = Min2(Len(AnalysedParagraphs), 10)

\* what the code does: a paragraph contributes when it has a sentence
C23_OneOpeningPerSentencedParagraph ==
    (last_op = "analyze" /\ AnalysedParagraphs # <<>>) =>
        \E sentenced \in {SelectSeq(AnalysedParagraphs,
                                    LAMBDA p: _split_sentences(p) # <<>>)}:
            /\ Len(style_profile.opening_patterns.sample_openings)
                 = Min2(Len(sentenced), 10)
            /\ Len(style_profile.closing_patterns.sample_closings)
                 = Min2(Len(sentenced), 10)

\* ---------------------------------------------------------------------------
\* C24: what the greeting and sign-off counts count
\* ---------------------------------------------------------------------------

\* the number of places of a text at which the two-word phrase occurs
PhraseOccurrences(t, w1, w2) ==
    Cardinality({i \in 1..Len(t) - 1:
                    /\ t[i].mark = "" /\ t[i].clip = 0 /\ EndsWith(t[i].w, w1)
                    /\ t[i].punct = ""
                    /\ t[i + 1].sep = <<SP>>
                    /\ ShowsWord(t[i + 1]) /\ StartsWith(t[i + 1].w, w2)})

\* ... summed over the paragraphs of the analysed corpus
OccurrencesInParagraphs(w1, w2) ==
    SumSeq(MapSeq(LAMBDA p: PhraseOccurrences(p, w1, w2), AnalysedParagraphs))

\* the paragraphs of the analysed corpus that hold the phrase in their first
\* (last) sentence, cut to 100 characters
OpeningsWith(w1, w2) ==
    CountIf(LAMBDA p: \E s \in {_split_sentences(p)}:
                         s # <<>> /\ HasPhrase(ClipHead(s[1], 100), w1, w2),
            AnalysedParagraphs)

\* C24: greeting_patterns[g] and signoff_patterns[s] are the numbers of
\* occurrences of the phrase in the whole paragraph texts of the corpus, also
\* in a sentence that is not the paragraph's first (last) one; stated for the
\* phrase "Thank you", which both catalogues hold
C24_PatternsCountOccurrences ==
    (last_op = "analyze" /\ AnalysedParagraphs # <<>>) =>
        /\ Get(style_profile.opening_patterns.greeting_patterns, "Thank you", 0)
             = OccurrencesInParagraphs("thank", "you")
        /\ Get(style_profile.closing_patterns.signoff_patterns, "Thank you", 0)
             = OccurrencesInParagraphs("thank", "you")

\* what the code counts for a greeting: the paragraphs whose opening holds it
C24_GreetingsCountOpenings ==
    (last_op = "analyze" /\ AnalysedParagraphs # <<>>) =>
        Get(style_profile.opening_patterns.greeting_patterns, "Thank you", 0)
            = OpeningsWith("thank", "you")

(***************************************************************************)
(* C25: the representative sentences.                                      *)
(***************************************************************************)
\* the candidates: the sentences of the corpus of fitting length, in corpus order
Candidates == SelectSeq(samples.sentences, LAMBDA s: 30 < TextLen(s) /\ TextLen(s) < 300)

\* the place among the candidates of the i-th sentence returned (the sentences of
\* the corpus are all different)
SelectedAt(i) == CHOOSE k \in 1..Len(Candidates) : Candidates[k] = samples.result[i]

\* at most 15 sentences, all candidates, in corpus order and none twice, and
\* exactly 15 of them when there are more than 15 candidates
SampleOfCandidates ==
    /\ Len(samples.result) <= 15
    /\ \A i \in 1..Len(samples.result) :
           \E k \in 1..Len(Candidates) : Candidates[k] = samples.result[i]
    /\ \A i \in 1..(Len(samples.result) - 1) : SelectedAt(i) < SelectedAt(i + 1)
    /\ Len(Candidates) > 15 => Len(samples.result) = 15

\* the run of candidates after the last one returned is at most twice as long as
\* the distance between any two returned one after the other
SpreadEvenly ==
    \A i \in 1..(Len(samples.result) - 1) :
        Len(Candidates) - SelectedAt(Len(samples.result))
            <= 2 * (SelectedAt(i + 1) - SelectedAt(i))

\* C25: _get_representative_sentences returns at most 15 sentences of length
\* strictly between 30 and 300, in corpus order and none twice; with more than
\* 15 candidates it returns exactly 15, spread evenly over the whole candidate
\* list: the candidates left out after the last one returned are never more
\* than twice the distance between two returned one after the other.
C25_SampleSpreadEvenly ==
    samples.done =>
        /\ SampleOfCandidates
        /\ Len(Candidates) > 15 => SpreadEvenly

\* C25, the part the code keeps: at most 15 candidates, in corpus order, none
\* twice, and exactly 15 when there are more than 15 candidates.
C25_SampleOfCandidates == samples.done => SampleOfCandidates

\* C25, where the spread fails: the code returns the candidates at places
\* 1, 1 + step, ..., 1 + 14 * step with step = candidates // 15, so that up to
\* step + 13 candidates at the end are never looked at.
C25_TailLeftOut ==
    /\ samples.done
    /\ Len(Candidates) = 29
    /\ SelectedAt(15) = 15

(***************************************************************************)
(* C29: unique_words of a merge and of the analysis of the two corpora.    *)
(***************************************************************************)
UniqueWords(profile) == Opt(Section(profile, "vocabulary"), "unique_words")

\* C29: merge_profiles(analyze(A), analyze(B)).vocabulary.unique_words is the
\* number of distinct meaningful words of the combined corpus, the
\* unique_words of analyze(A followed by B), also when A and B share words.
C29_UniqueWordsOfUnion ==
    MergedTwoAnalyses => UniqueWords(style_profile) = UniqueWords(UnionProfile)

\* C29, what the code computes: the sum of the two sides' unique_words, which
\* is never less than the number of distinct words of the combined corpus.
C29_UniqueWordsSummed ==
    MergedTwoAnalyses =>
        /\ UniqueWords(style_profile)
           = <<Get(Section(existing_profile, "vocabulary"), "unique_words", 0)
               + Get(Section(new_profile, "vocabulary"), "unique_words", 0)>>
        /\ UniqueWords(style_profile)[1] >= UniqueWords(UnionProfile)[1]

\* C29, the case of shared words: a corpus was merged with itself
C29_SameCorpusMerged ==
    /\ MergedTwoAnalyses
    /\ origin.existing.leaves = origin.new.leaves
    /\ UniqueWords(UnionProfile)[1] > 0
    /\ UniqueWords(style_profile)[1] = 2 * UniqueWords(UnionProfile)[1]

(***************************************************************************)
(* C30: the mean sentence length lies between the shortest and the longest.*)
(***************************************************************************)
Profiles == <<style_profile, existing_profile, new_profile>>

Origins == <<origin.style, origin.existing, origin.new>>

SentencesCounted(profile) == Get(Section(profile, "sentence_stats"), "total_sentences", 0) > 0

MeanWithinRange(profile) ==
    LET s == Section(profile, "sentence_stats")
    IN  /\ FLeq(FFromInt(s.min_length), s.avg_length_chars)
        /\ FLeq(s.avg_length_chars, FFromInt(s.max_length))

\* abs(a - b) <= k * 2^-50 * b
WithinRounding(a, b, k) ==
    LET d == DyAbsDiff(a, b)
    IN  DyLeq(<<d[1], d[2] + 50>>, DyTimes(b, k))

\* min_length * (1 - k * 2^-50) <= avg_length_chars <= max_length * (1 + k * 2^-50)
MeanNearRange(profile, k) ==
    LET s == Section(profile, "sentence_stats")
        lo == FFromInt(s.min_length)
        hi == FFromInt(s.max_length)
    IN  /\ FLeq(lo, s.avg_length_chars) \/ WithinRounding(s.avg_length_chars, lo, k)
        /\ FLeq(s.avg_length_chars, hi) \/ WithinRounding(s.avg_length_chars, hi, k)

\* the number of merge_profiles calls that made the i-th profile
MergesOf(i) == IF Origins[i].leaves = <<>> THEN 0 ELSE Len(Origins[i].leaves) - 1

\* C30 as stated: in every profile with total_sentences > 0 reached from
\* analyze-produced profiles by merge_profiles calls,
\* min_length <= avg_length_chars <= max_length.
C30_MeanWithinRange ==
    \A i \in 1..3 : SentencesCounted(Profiles[i]) => MeanWithinRange(Profiles[i])

\* C30, amended: an analyze-produced profile with total_sentences > 0 has
\* min_length <= avg_length_chars <= max_length, and a profile made of
\* analyze-produced profiles by k merge_profiles calls has
\* min_length * (1 - k * 2^-50) <= avg_length_chars <= max_length * (1 + k * 2^-50).
C30_MeanWithinRangeRounded ==
    \A i \in 1..3 :
        SentencesCounted(Profiles[i]) => MeanNearRange(Profiles[i], MergesOf(i))

\* C30, the case of rounding: one sentence of 29 characters was merged with
\* four of 29 characters, and the merged mean is above the merged max_length
C30_MeanAboveLongest ==
    /\ last_op = "merge"
    /\ SentencesCounted(style_profile)
    /\ style_profile.sentence_stats.total_sentences = 5
    /\ style_profile.sentence_stats.max_length = 29
    /\ FLess(FFromInt(29), style_profile.sentence_stats.avg_length_chars)

\* C30, the plain case: sentences of different lengths were merged and the
\* mean is strictly between the shortest and the longest
C30_MixedLengthsMerged ==
    /\ last_op = "merge"
    /\ SentencesCounted(style_profile)
    /\ LET s == style_profile.sentence_stats
       IN  /\ FLess(FFromInt(s.min_length), s.avg_length_chars)
           /\ FLess(s.avg_length_chars, FFromInt(s.max_length))

(***************************************************************************)
(* C26: the documents counted over learn and learn-append sessions.        *)
(***************************************************************************)
StoredDocuments == Opt(Section(store.profile, "metadata"), "total_documents")

\* C26: after a learn session with n >= 1 documents and learn-append sessions
\* with m_1..m_k documents, the stored profile has total_documents
\* = n + m_1 + ... + m_k; a learn-append session whose source yields no
\* document leaves the profile file and the samples file as they were; a later
\* learn session replaces the profile, and the count is that session's.
C26_DocumentsCounted ==
    /\ store.has_profile => StoredDocuments = <<session.learned>>
    /\ session.kind = "learn_append" /\ session.texts = <<>> => store = session.before
    /\ session.kind = "learn" /\ session.texts # <<>>
          => StoredDocuments = <<Len(session.texts)>>

\* C26, the case: a learn session and two learn-append sessions with documents
C26_TwiceAppended ==
    /\ session.kind = "learn_append"
    /\ session.count = 3
    /\ session.texts # <<>>
    /\ session.before.has_profile
    /\ session.learned > Len(session.texts) + 1
    /\ StoredDocuments = <<session.learned>>

\* C26, the other cases: a learn-append without documents on a stored profile,
\* and a learn session on a stored profile of more documents
C26_NothingAppended ==
    /\ session.kind = "learn_append"
    /\ session.texts = <<>>
    /\ session.before.has_profile

C26_LearnedAgain ==
    /\ session.kind = "learn"
    /\ session.before.has_profile
    /\ session.texts # <<>>
    /\ Section(session.before.profile, "metadata").total_documents > Len(session.texts)

(***************************************************************************)
(* C27: learn-append without a stored profile, and learn.                  *)
(***************************************************************************)
\* the last session was a learn-append with no profile file before it
AppendedWithoutProfile == session.kind = "learn_append" /\ ~session.before.has_profile

\* the files that learn leaves for the source of the last session
LearnedInstead ==
    learn(session.before, session.texts, SessionAnalysisOf[session.texts])

\* C27 as stated: with no profile stored, learn-append on a source leaves the
\* profile file and the samples file as learn on that source would, the samples
\* being all the texts of the source in their order, for any number of documents.
C27_AppendAsLearn ==
    AppendedWithoutProfile =>
        /\ store = LearnedInstead
        /\ session.texts # <<>> => SplitSamples(store.samples) = session.texts

\* C27, amended: the same for a source of at most 100 documents; for a source
\* of more than 100 documents the profile file is the same, and the samples
\* file holds the first 100 texts of the source in their order.
C27_AppendAsLearnWithinCap ==
    AppendedWithoutProfile =>
        /\ store.profile = LearnedInstead.profile
        /\ store.has_profile = LearnedInstead.has_profile
        /\ store.has_samples = LearnedInstead.has_samples
        /\ Len(session.texts) <= MaxSamples => store = LearnedInstead
        /\ session.texts # <<>>
              => SplitSamples(store.samples) = Take(session.texts, MaxSamples)

\* C27, the case: a source of exactly 100 documents appended to no profile
C27_FullCapAppended ==
    /\ AppendedWithoutProfile
    /\ Len(session.texts) = MaxSamples
    /\ store = LearnedInstead
    /\ Len(SplitSamples(store.samples)) = MaxSamples

\* C27, where it fails: a source of 101 documents
C27_SamplesCut ==
    /\ AppendedWithoutProfile
    /\ Len(session.texts) = MaxSamples + 1
    /\ Len(SplitSamples(store.samples)) = MaxSamples
    /\ Len(SplitSamples(LearnedInstead.samples)) = MaxSamples + 1

(***************************************************************************)
(* C28: one response per request in run_stdio_server.                      *)
(***************************************************************************)
\* the line parses as JSON
ParsesAsJson(line) == json_loads[line].type # "JSONDecodeError"

\* the id of the request on the line, <<>> when it has none
RequestId(line) ==
    IF json_loads[line].type = "dict" THEN Opt(json_loads[line].value, "id") ELSE <<>>

\* the id of a line written, <<>> when it has none
ResponseId(out) == IF "id" \in DOMAIN out THEN out.id ELSE <<>>

\* every line read so far that parses as JSON had exactly one line written for
\* it, and every other line none
OneLinePerRequest ==
    \A i \in 1..Len(server.log) :
        Len(server.log[i].written) = IF ParsesAsJson(server.log[i].line) THEN 1 ELSE 0

\* the loop ends only at the end of the input
EndsAtEndOfFile == server.stopped => server.stdin = <<>>

\* C28: in run_stdio_server every input line that parses as JSON produces
\* exactly one output line, and that response carries the id of the request; a
\* line that is not valid JSON produces no output and does not stop the loop;
\* the loop ends when the input is at end of file.
C28_OneResponseWithRequestId ==
    /\ OneLinePerRequest
    /\ \A i \in 1..Len(server.log) :
           \A k \in 1..Len(server.log[i].written) :
               ResponseId(server.log[i].written[k]) = RequestId(server.log[i].line)
    /\ EndsAtEndOfFile

\* C28, the part the code keeps: one line written for each line that parses as
\* JSON and none for the others, the loop ending only at end of file, and the
\* id of the request in every response that is not an error response.
C28_OneLinePerRequest ==
    /\ OneLinePerRequest
    /\ \A i \in 1..Len(server.log) :
           \A k \in 1..Len(server.log[i].written) :
               \/ "error" \in DOMAIN server.log[i].written[k]
               \/ ResponseId(server.log[i].written[k]) = RequestId(server.log[i].line)
    /\ EndsAtEndOfFile

\* C28, where it fails: a request with an id was answered by the error
\* response, which has no id
C28_ErrorWithoutId ==
    \E i \in 1..Len(server.log) :
        /\ RequestId(server.log[i].line) # <<>>
        /\ Len(server.log[i].written) = 1
        /\ "id" \notin DOMAIN server.log[i].written[1]

====
